---- MODULE Spec2Model ----
(***************************************************************************)
(* The corridor-grid environments as a state machine.                      *)
(*                                                                         *)
(* One kernel instance is driven per behaviour: a special-state corridor   *)
(* (SmallCorridorEnv, LongCorridorEnv, CircularSSCorridorEnv) or the door  *)
(* corridor grid (DoorCorridorEnv).  The variables are the attributes of   *)
(* that instance, the arguments it was constructed from and the outcome    *)
(* of the last call made on it.                                            *)
(*                                                                         *)
(* Encoding of Python values:                                              *)
(*   Optional[int]   None is {}, a concrete n is {n}                       *)
(*   dict            a function whose DOMAIN is the set of keys present    *)
(*   list of int     used only for membership and iteration: a set         *)
(*   action          [t |-> "int", i |-> n] or [t |-> "str", s |-> x]      *)
(*   a raise         [raised |-> TRUE, error |-> <type>, msg |-> <text>]   *)
(***************************************************************************)
EXTENDS Integers, Sequences, FiniteSets, TLC

VARIABLES
    phase,                   \* "new" | "failed" | "constructed"
    cls,                     \* class of the instance
    args,                    \* the constructor's arguments
    \* --- attributes of BaseSpecialStateCorridorEnv ---
    truncate_tolerance,
    corridor_length,         \* (DoorCorridorEnv has an attribute of this name too)
    start_state,
    goal_state,
    special_states,
    _curr_start_state,
    _agent_location,
    _internal_step_counter,
    _np_random_seed,         \* seed of self.np_random, set by gymnasium's Env.reset
    \* --- attributes of DoorCorridorEnv ---
    max_steps,
    agent_view_size,
    grid_width,
    grid_height,
    start_pos,
    goal_pos,
    grid,
    agent_pos,
    agent_dir,
    _step_count,
    \* --- what the caller sees ---
    ret,                     \* outcome of the last call
    \* --- history (not program state) ---
    calls,                   \* step calls that returned since the last reset
    hist,                    \* those calls, oldest first (recorded by HistSpec only)
    draws                    \* seed and start of each reset (recorded by SeedSpec only)

corridor_vars == <<truncate_tolerance, start_state, goal_state,
                   special_states, _curr_start_state, _agent_location,
                   _internal_step_counter, _np_random_seed>>
grid_vars == <<max_steps, agent_view_size, grid_width, grid_height, start_pos,
               goal_pos, grid, agent_pos, agent_dir, _step_count>>
vars == <<phase, cls, args, corridor_length, corridor_vars, grid_vars, ret,
          calls, hist, draws>>

-----------------------------------------------------------------------------
(* Bounds of the model *)

MaxLen == 3        \* longest corridor given explicitly
MaxTrunc == 2      \* largest truncation limit given explicitly
MaxSteps == 3      \* calls of step followed per episode
MaxHist == 6       \* calls of step followed per episode when recording hist
MaxGridLen == 5    \* longest door corridor
MaxView == 5       \* largest agent_view_size
MaxGridSteps == 4  \* calls of step followed per episode of the door corridor
MaxSeed == 1       \* largest seed given to reset
MaxDraws == 2      \* calls of reset followed when recording draws
MaxEpisodeSteps == 5  \* door steps followed when recording the flags

-----------------------------------------------------------------------------
(* Constants of base_ss_corridor.py *)

DEFAULT_TRUNCATE_TOLERANCE == 50
BASE_SMALL_CORRIDOR_ENV_SIZE == 4
BASE_SMALL_CORRIDOR_ENV_SPECIAL_STATE == 1
CORRIDOR_ACTION == <<"L", "R">>   \* BaseSpecialStateCorridorEnv.ACTION

(* Python values *)
None == {}
Some(n) == {n}
Val(o) == CHOOSE n \in o : TRUE
(* an attribute declared but not yet assigned, by the type declared *)
Unset == -1
UnsetSet == {}
UnsetSeq == <<>>

Return(v) == [raised |-> FALSE, value |-> v]
Raise(e, m) == [raised |-> TRUE, error |-> e, msg |-> m]

IntAct(n) == [t |-> "int", i |-> n]
StrAct(x) == [t |-> "str", s |-> x]

Max(a, b) == IF a >= b THEN a ELSE b
Min(a, b) == IF a <= b THEN a ELSE b
Abs(a) == IF a >= 0 THEN a ELSE -a

CorridorClasses == {"SmallCorridorEnv", "LongCorridorEnv",
                    "CircularSSCorridorEnv"}

-----------------------------------------------------------------------------
(* SpecialStateCorridorEnvCustomisationConfig.from_dict: the asserts in    *)
(* the order of the code; the first that fails raises.                     *)

(* slip: a start state equal to the length passes *)
StartWithin_Inclusive(start, length) == start <= length

(* the bound asserted on a concrete start state (lines 71-73) *)
StartWithin(start, length) == start < length

(* slip: the goal is not compared with the start *)
from_dict_GoalAtStart(config_dict) ==
    LET length == IF "corridor_length" \in DOMAIN config_dict
                  THEN config_dict["corridor_length"]
                  ELSE BASE_SMALL_CORRIDOR_ENV_SIZE
        start  == IF "start_state" \in DOMAIN config_dict
                  THEN config_dict["start_state"]
                  ELSE None
        goal   == IF "goal_state" \in DOMAIN config_dict
                  THEN config_dict["goal_state"]
                  ELSE length - 1
        special == IF "special_states" \in DOMAIN config_dict
                   THEN config_dict["special_states"]
                   ELSE {BASE_SMALL_CORRIDOR_ENV_SPECIAL_STATE}
        tol    == IF "truncate_tolerance" \in DOMAIN config_dict
                  THEN config_dict["truncate_tolerance"]
                  ELSE DEFAULT_TRUNCATE_TOLERANCE
    IN  IF ~(length >= 2)
        THEN Raise("AssertionError",
                   "Corridor length must be at least 2 (a start and a goal)")
        ELSE IF start # None /\ ~(Val(start) >= 0)
        THEN Raise("AssertionError", "Start state must be non-negative")
        ELSE IF start # None /\ ~StartWithin(Val(start), length)
        THEN Raise("AssertionError", "Start state must be within the corridor")
        ELSE IF ~(goal >= 0)
        THEN Raise("AssertionError", "Goal state must be non-negative")
        ELSE IF ~(goal < length)
        THEN Raise("AssertionError", "Goal state must be within the corridor")
        ELSE IF \E s \in special : ~(s >= 0)
        THEN Raise("AssertionError", "Special state must be non-negative")
        ELSE IF \E s \in special : ~(s < length)
        THEN Raise("AssertionError",
                   "Special state must be within the corridor")
        ELSE IF ~(tol > 0)
        THEN Raise("AssertionError", "Truncate tolerance must be positive")
        ELSE Return([corridor_length |-> length,
                     start_state |-> start,
                     goal_state |-> goal,
                     special_states |-> special,
                     truncate_tolerance |-> tol])

(* slip: a start state left out is taken to be 0 *)
from_dict_StartZero(config_dict) ==
    LET length == IF "corridor_length" \in DOMAIN config_dict
                  THEN config_dict["corridor_length"]
                  ELSE BASE_SMALL_CORRIDOR_ENV_SIZE
        start  == IF "start_state" \in DOMAIN config_dict
                  THEN config_dict["start_state"]
                  ELSE Some(0)
        goal   == IF "goal_state" \in DOMAIN config_dict
                  THEN config_dict["goal_state"]
                  ELSE length - 1
        special == IF "special_states" \in DOMAIN config_dict
                   THEN config_dict["special_states"]
                   ELSE {BASE_SMALL_CORRIDOR_ENV_SPECIAL_STATE}
        tol    == IF "truncate_tolerance" \in DOMAIN config_dict
                  THEN config_dict["truncate_tolerance"]
                  ELSE DEFAULT_TRUNCATE_TOLERANCE
    IN  IF ~(length >= 2)
        THEN Raise("AssertionError",
                   "Corridor length must be at least 2 (a start and a goal)")
        ELSE IF start # None /\ ~(Val(start) >= 0)
        THEN Raise("AssertionError", "Start state must be non-negative")
        ELSE IF start # None /\ ~StartWithin(Val(start), length)
        THEN Raise("AssertionError", "Start state must be within the corridor")
        ELSE IF ~(goal >= 0)
        THEN Raise("AssertionError", "Goal state must be non-negative")
        ELSE IF ~(goal < length)
        THEN Raise("AssertionError", "Goal state must be within the corridor")
        ELSE IF ~(Some(goal) # start)
        THEN Raise("AssertionError",
                   "Goal state must be different from start state")
        ELSE IF \E s \in special : ~(s >= 0)
        THEN Raise("AssertionError", "Special state must be non-negative")
        ELSE IF \E s \in special : ~(s < length)
        THEN Raise("AssertionError",
                   "Special state must be within the corridor")
        ELSE IF ~(tol > 0)
        THEN Raise("AssertionError", "Truncate tolerance must be positive")
        ELSE Return([corridor_length |-> length,
                     start_state |-> start,
                     goal_state |-> goal,
                     special_states |-> special,
                     truncate_tolerance |-> tol])

(* slip: the default goal is the second to last state *)
from_dict_GoalShort(config_dict) ==
    LET length == IF "corridor_length" \in DOMAIN config_dict
                  THEN config_dict["corridor_length"]
                  ELSE BASE_SMALL_CORRIDOR_ENV_SIZE
        start  == IF "start_state" \in DOMAIN config_dict
                  THEN config_dict["start_state"]
                  ELSE None
        goal   == IF "goal_state" \in DOMAIN config_dict
                  THEN config_dict["goal_state"]
                  ELSE length - 2
        special == IF "special_states" \in DOMAIN config_dict
                   THEN config_dict["special_states"]
                   ELSE {BASE_SMALL_CORRIDOR_ENV_SPECIAL_STATE}
        tol    == IF "truncate_tolerance" \in DOMAIN config_dict
                  THEN config_dict["truncate_tolerance"]
                  ELSE DEFAULT_TRUNCATE_TOLERANCE
    IN  IF ~(length >= 2)
        THEN Raise("AssertionError",
                   "Corridor length must be at least 2 (a start and a goal)")
        ELSE IF start # None /\ ~(Val(start) >= 0)
        THEN Raise("AssertionError", "Start state must be non-negative")
        ELSE IF start # None /\ ~StartWithin(Val(start), length)
        THEN Raise("AssertionError", "Start state must be within the corridor")
        ELSE IF ~(goal >= 0)
        THEN Raise("AssertionError", "Goal state must be non-negative")
        ELSE IF ~(goal < length)
        THEN Raise("AssertionError", "Goal state must be within the corridor")
        ELSE IF ~(Some(goal) # start)
        THEN Raise("AssertionError",
                   "Goal state must be different from start state")
        ELSE IF \E s \in special : ~(s >= 0)
        THEN Raise("AssertionError", "Special state must be non-negative")
        ELSE IF \E s \in special : ~(s < length)
        THEN Raise("AssertionError",
                   "Special state must be within the corridor")
        ELSE IF ~(tol > 0)
        THEN Raise("AssertionError", "Truncate tolerance must be positive")
        ELSE Return([corridor_length |-> length,
                     start_state |-> start,
                     goal_state |-> goal,
                     special_states |-> special,
                     truncate_tolerance |-> tol])

from_dict(config_dict) ==
    LET length == IF "corridor_length" \in DOMAIN config_dict
                  THEN config_dict["corridor_length"]
                  ELSE BASE_SMALL_CORRIDOR_ENV_SIZE
        start  == IF "start_state" \in DOMAIN config_dict
                  THEN config_dict["start_state"]
                  ELSE None
        goal   == IF "goal_state" \in DOMAIN config_dict
                  THEN config_dict["goal_state"]
                  ELSE length - 1
        special == IF "special_states" \in DOMAIN config_dict
                   THEN config_dict["special_states"]
                   ELSE {BASE_SMALL_CORRIDOR_ENV_SPECIAL_STATE}
        tol    == IF "truncate_tolerance" \in DOMAIN config_dict
                  THEN config_dict["truncate_tolerance"]
                  ELSE DEFAULT_TRUNCATE_TOLERANCE
    IN  IF ~(length >= 2)
        THEN Raise("AssertionError",
                   "Corridor length must be at least 2 (a start and a goal)")
        ELSE IF start # None /\ ~(Val(start) >= 0)
        THEN Raise("AssertionError", "Start state must be non-negative")
        ELSE IF start # None /\ ~StartWithin(Val(start), length)
        THEN Raise("AssertionError", "Start state must be within the corridor")
        ELSE IF ~(goal >= 0)
        THEN Raise("AssertionError", "Goal state must be non-negative")
        ELSE IF ~(goal < length)
        THEN Raise("AssertionError", "Goal state must be within the corridor")
        ELSE IF ~(Some(goal) # start)
        THEN Raise("AssertionError",
                   "Goal state must be different from start state")
        ELSE IF \E s \in special : ~(s >= 0)
        THEN Raise("AssertionError", "Special state must be non-negative")
        ELSE IF \E s \in special : ~(s < length)
        THEN Raise("AssertionError",
                   "Special state must be within the corridor")
        ELSE IF ~(tol > 0)
        THEN Raise("AssertionError", "Truncate tolerance must be positive")
        ELSE Return([corridor_length |-> length,
                     start_state |-> start,
                     goal_state |-> goal,
                     special_states |-> special,
                     truncate_tolerance |-> tol])

(* slip: the special state of the small corridor put at 2 *)
SmallCorridorDict_SpecialAt2 ==
    [corridor_length |-> 4, start_state |-> Some(0), goal_state |-> 3,
     special_states |-> {2}]

(* SmallCorridorEnv.__init__: the fixed dictionary it hands to the base.   *)
SmallCorridorDict ==
    [corridor_length |-> 4, start_state |-> Some(0), goal_state |-> 3,
     special_states |-> {1}]

(* The constructors of the three corridor classes.  a is the record of the *)
(* arguments: customisation_cfg_dict for the customisable classes,         *)
(* truncate_tolerance (Optional[int]) for SmallCorridorEnv, whose          *)
(* `if truncate_tolerance:` takes every value other than None and 0.       *)
CorridorInit(c, a) ==
    IF c = "SmallCorridorEnv"
    THEN LET r == from_dict(SmallCorridorDict)
         IN  IF r.raised THEN r
             ELSE IF a.truncate_tolerance # None
                     /\ Val(a.truncate_tolerance) # 0
                  THEN Return([r.value EXCEPT !.truncate_tolerance =
                                                Val(a.truncate_tolerance)])
                  ELSE r
    ELSE from_dict(a.customisation_cfg_dict)

-----------------------------------------------------------------------------
(* Private methods of the corridor classes, as functions of the agent's    *)
(* location p; the other attributes do not change after construction.      *)

(* slip: an integer action indexes ACTION from its end *)
_get_action_str_Reversed(action) ==
    IF action.t = "str"
    THEN IF \E k \in DOMAIN CORRIDOR_ACTION : CORRIDOR_ACTION[k] = action.s
         THEN Return(action.s)
         ELSE Raise("AssertionError", "Invalid action")
    ELSE IF action.i \in 0 .. (Len(CORRIDOR_ACTION) - 1)
         THEN Return(CORRIDOR_ACTION[Len(CORRIDOR_ACTION) - action.i])
         ELSE Raise("AssertionError", "Invalid action index")

_get_action_str(action) ==
    IF action.t = "str"
    THEN IF \E k \in DOMAIN CORRIDOR_ACTION : CORRIDOR_ACTION[k] = action.s
         THEN Return(action.s)
         ELSE Raise("AssertionError", "Invalid action")
    ELSE IF action.i \in 0 .. (Len(CORRIDOR_ACTION) - 1)
         THEN Return(CORRIDOR_ACTION[action.i + 1])
         ELSE Raise("AssertionError", "Invalid action index")

(* slip: on a special state both actions move to the right *)
_convert_action_to_movement_SpecialOneWay(p, action) ==
    LET a == _get_action_str(action)
    IN  IF a.raised THEN a
        ELSE IF p \in special_states
             THEN Return(1)
             ELSE Return(IF a.value = "L" THEN -1 ELSE 1)

(* slip: the special states do not invert the movement *)
_convert_action_to_movement_NoInvert(p, action) ==
    LET a == _get_action_str(action)
    IN  IF a.raised THEN a
        ELSE Return(IF a.value = "L" THEN -1 ELSE 1)

_convert_action_to_movement(p, action) ==
    LET a == _get_action_str(action)
    IN  IF a.raised THEN a
        ELSE IF p \in special_states
             THEN Return(IF a.value = "L" THEN 1 ELSE -1)
             ELSE Return(IF a.value = "L" THEN -1 ELSE 1)

(* slip: the linear corridor does not clamp the new location *)
_get_agent_new_location_NoClamp(p, action) ==
    LET m == _convert_action_to_movement(p, action)
    IN  IF m.raised THEN m
        ELSE LET new_p == p + m.value
             IN  IF cls = "CircularSSCorridorEnv"
                 THEN Return(new_p % corridor_length)
                 ELSE Return(new_p)

(* slip: the circular corridor keeps the clamping of the base class *)
_get_agent_new_location_Clamp(p, action) ==
    LET m == _convert_action_to_movement(p, action)
    IN  IF m.raised THEN m
        ELSE Return(Max(0, Min(p + m.value, corridor_length - 1)))

_get_agent_new_location(p, action) ==
    LET m == _convert_action_to_movement(p, action)
    IN  IF m.raised THEN m
        ELSE LET new_p == p + m.value
             IN  IF cls = "CircularSSCorridorEnv"
                 THEN Return(new_p % corridor_length)
                 ELSE Return(Max(0, Min(new_p, corridor_length - 1)))

(* slip: the circular corridor keeps the distance of the base class *)
_get_distance_to_goal_Linear(p) == Abs(p - goal_state)

_get_distance_to_goal(p) ==
    IF cls = "CircularSSCorridorEnv"
    THEN LET diff == Abs(p - goal_state)
         IN  Min(diff, corridor_length - diff)
    ELSE Abs(p - goal_state)

(* slip: the right wall is looked for one cell too far *)
_get_agent_observation_NoRightWall(p) ==
    IF cls = "CircularSSCorridorEnv"
    THEN [wall_status |-> <<0, 0>>, agent_location |-> p]
    ELSE [wall_status |-> IF p = 0 THEN <<1, 0>>
                          ELSE IF p = corridor_length THEN <<0, 1>>
                          ELSE <<0, 0>>,
          agent_location |-> p]

_get_agent_observation(p) ==
    IF cls = "CircularSSCorridorEnv"
    THEN [wall_status |-> <<0, 0>>, agent_location |-> p]
    ELSE [wall_status |-> IF p = 0 THEN <<1, 0>>
                          ELSE IF p = corridor_length - 1 THEN <<0, 1>>
                          ELSE <<0, 0>>,
          agent_location |-> p]

(* BaseSpecialStateCorridorEnv._render_frame_ansi_mode, the text that       *)
(* render() returns in the "ansi" mode.  A string is the sequence of its    *)
(* characters.  The markers are written in the order of the code: start,    *)
(* goal, every special state, agent; a later one replaces an earlier one.   *)
RECURSIVE StrJoin(_, _)
StrJoin(sep, xs) ==
    IF Len(xs) = 0 THEN <<>>
    ELSE IF Len(xs) = 1 THEN <<xs[1]>>
    ELSE <<xs[1], sep>> \o StrJoin(sep, Tail(xs))

(* slips: the agent written before the special states; the goal written    *)
(* after them                                                              *)
_render_frame_ansi_mode_AgentEarly ==
    LET cells == 0 .. (corridor_length - 1)
        b0 == [i \in cells |-> " "]
        b1 == [b0 EXCEPT ![_curr_start_state] = "S"]
        b2 == [b1 EXCEPT ![goal_state] = "G"]
        b3 == [b2 EXCEPT ![_agent_location] = "*"]
        b4 == [i \in cells |-> IF i \in special_states THEN "^" ELSE b3[i]]
        base_str == [k \in 1 .. corridor_length |-> b4[k - 1]]
    IN  <<"[">> \o StrJoin("|", base_str) \o <<"]">>

_render_frame_ansi_mode_GoalLate ==
    LET cells == 0 .. (corridor_length - 1)
        b0 == [i \in cells |-> " "]
        b1 == [b0 EXCEPT ![_curr_start_state] = "S"]
        b2 == [i \in cells |-> IF i \in special_states THEN "^" ELSE b1[i]]
        b3 == [b2 EXCEPT ![goal_state] = "G"]
        b4 == [b3 EXCEPT ![_agent_location] = "*"]
        base_str == [k \in 1 .. corridor_length |-> b4[k - 1]]
    IN  <<"[">> \o StrJoin("|", base_str) \o <<"]">>

_render_frame_ansi_mode ==
    LET cells == 0 .. (corridor_length - 1)
        b0 == [i \in cells |-> " "]
        b1 == [b0 EXCEPT ![_curr_start_state] = "S"]
        b2 == [b1 EXCEPT ![goal_state] = "G"]
        b3 == [i \in cells |-> IF i \in special_states THEN "^" ELSE b2[i]]
        b4 == [b3 EXCEPT ![_agent_location] = "*"]
        base_str == [k \in 1 .. corridor_length |-> b4[k - 1]]
    IN  <<"[">> \o StrJoin("|", base_str) \o <<"]">>

-----------------------------------------------------------------------------
(* door_corridor.py: constants and enumerations (IntEnum values) *)

DOOR_DEFAULT_TRUNCATE_TOLERANCE == 270
DEFAULT_AGENT_VIEW_SIZE == 3
DEFAULT_CORRIDOR_LENGTH == 5

LEFT_ACTION == 0
RIGHT_ACTION == 1
FORWARD == 2
TOGGLE == 3
DoorCorridorAction == {LEFT_ACTION, RIGHT_ACTION, FORWARD, TOGGLE}
DoorCorridorActionName(a) ==
    CASE a = LEFT_ACTION -> "LEFT"
      [] a = RIGHT_ACTION -> "RIGHT"
      [] a = FORWARD -> "FORWARD"
      [] a = TOGGLE -> "TOGGLE"

RIGHT == 0
DOWN == 1
LEFT == 2
UP == 3
AgentDirection == {RIGHT, DOWN, LEFT, UP}
AgentDirectionName(d) ==
    CASE d = RIGHT -> "RIGHT" [] d = DOWN -> "DOWN"
      [] d = LEFT -> "LEFT" [] d = UP -> "UP"
(* slip: turn_left turns the same way as turn_right *)
turn_left_Clockwise(d) == (d + 1) % 4

turn_left(d) == (d - 1) % 4
turn_right(d) == (d + 1) % 4

UNSEEN == 0
EMPTY == 1
WALL == 2
DOOR == 3
AGENT == 4
GOAL == 5

OPEN == 0
CLOSED == 1
(* slip: toggling always closes *)
toggle_AlwaysClosed(s) == CLOSED

toggle(s) == (s + 1) % 2

(* A cell of the grid: channel 0 is the object, channel 1 the state. *)
Cell(o, s) == [k \in 0 .. 1 |-> IF k = 0 THEN o ELSE s]

-----------------------------------------------------------------------------
(* DoorCorridorEnv._gen_grid.  A grid g is indexed g[y][x][channel] from 0. *)
(* The numpy assignments are applied in the order of the code; a negative   *)
(* index counts from the end, an index outside the axis raises IndexError,  *)
(* a negative dimension raises ValueError, and the slice 2:-2 of an axis of *)
(* size n is the indices 2 .. n-3.                                          *)

NpIndex(i, n) == IF i < 0 THEN i + n ELSE i
NpInAxis(i, n) == -n <= i /\ i < n

SetObj(g, x, y, o) == [g EXCEPT ![y][x][0] = o]

(* slip: the doors laid with the slice 1:-1, under the agent and the goal *)
_gen_grid_WideSlice(width, height) ==
    IF width < 0 \/ height < 0
    THEN Raise("ValueError", "negative dimensions are not allowed")
    ELSE
    LET xs == 0 .. (width - 1)
        ys == 0 .. (height - 1)
        g0 == [y \in ys |-> [x \in xs |-> Cell(EMPTY, 0)]]
    IN  IF ~NpInAxis(0, width) \/ ~NpInAxis(-1, width)
           \/ ~NpInAxis(0, height) \/ ~NpInAxis(-1, height)
        THEN Raise("IndexError", "index is out of bounds for axis")
        ELSE
        LET g1 == [y \in ys |-> [x \in xs |->
                     IF x = NpIndex(0, width) THEN Cell(WALL, g0[y][x][1])
                     ELSE g0[y][x]]]
            g2 == [y \in ys |-> [x \in xs |->
                     IF x = NpIndex(-1, width) THEN Cell(WALL, g1[y][x][1])
                     ELSE g1[y][x]]]
            g3 == [y \in ys |-> [x \in xs |->
                     IF y = NpIndex(0, height) THEN Cell(WALL, g2[y][x][1])
                     ELSE g2[y][x]]]
            g4 == [y \in ys |-> [x \in xs |->
                     IF y = NpIndex(-1, height) THEN Cell(WALL, g3[y][x][1])
                     ELSE g3[y][x]]]
        IN  IF ~NpInAxis(1, height)
            THEN Raise("IndexError", "index is out of bounds for axis")
            ELSE
            LET g5 == [y \in ys |-> [x \in xs |->
                         IF y = 1 /\ x \in 1 .. (width - 2)
                         THEN Cell(DOOR, CLOSED)
                         ELSE g4[y][x]]]
                sx == 1
                sy == 1
                gx == width - 2
                gy == 1
            IN  IF ~NpInAxis(sy, height) \/ ~NpInAxis(sx, width)
                   \/ ~NpInAxis(gy, height) \/ ~NpInAxis(gx, width)
                THEN Raise("IndexError", "index is out of bounds for axis")
                ELSE
                LET g6 == SetObj(g5, NpIndex(sx, width),
                                 NpIndex(sy, height), AGENT)
                    g7 == SetObj(g6, NpIndex(gx, width),
                                 NpIndex(gy, height), GOAL)
                IN  Return(g7)

_gen_grid(width, height) ==
    IF width < 0 \/ height < 0
    THEN Raise("ValueError", "negative dimensions are not allowed")
    ELSE
    LET xs == 0 .. (width - 1)
        ys == 0 .. (height - 1)
        g0 == [y \in ys |-> [x \in xs |-> Cell(EMPTY, 0)]]
    IN  IF ~NpInAxis(0, width) \/ ~NpInAxis(-1, width)
           \/ ~NpInAxis(0, height) \/ ~NpInAxis(-1, height)
        THEN Raise("IndexError", "index is out of bounds for axis")
        ELSE
        LET g1 == [y \in ys |-> [x \in xs |->
                     IF x = NpIndex(0, width) THEN Cell(WALL, g0[y][x][1])
                     ELSE g0[y][x]]]
            g2 == [y \in ys |-> [x \in xs |->
                     IF x = NpIndex(-1, width) THEN Cell(WALL, g1[y][x][1])
                     ELSE g1[y][x]]]
            g3 == [y \in ys |-> [x \in xs |->
                     IF y = NpIndex(0, height) THEN Cell(WALL, g2[y][x][1])
                     ELSE g2[y][x]]]
            g4 == [y \in ys |-> [x \in xs |->
                     IF y = NpIndex(-1, height) THEN Cell(WALL, g3[y][x][1])
                     ELSE g3[y][x]]]
        IN  IF ~NpInAxis(1, height)
            THEN Raise("IndexError", "index is out of bounds for axis")
            ELSE
            LET g5 == [y \in ys |-> [x \in xs |->
                         IF y = 1 /\ x \in 2 .. (width - 3)
                         THEN Cell(DOOR, CLOSED)
                         ELSE g4[y][x]]]
                sx == 1
                sy == 1
                gx == width - 2
                gy == 1
            IN  IF ~NpInAxis(sy, height) \/ ~NpInAxis(sx, width)
                   \/ ~NpInAxis(gy, height) \/ ~NpInAxis(gx, width)
                THEN Raise("IndexError", "index is out of bounds for axis")
                ELSE
                LET g6 == SetObj(g5, NpIndex(sx, width),
                                 NpIndex(sy, height), AGENT)
                    g7 == SetObj(g6, NpIndex(gx, width),
                                 NpIndex(gy, height), GOAL)
                IN  Return(g7)

(* slip: the lower bound on agent_view_size is not asserted *)
DoorInit_NoMinView(a) ==
    IF ~(a.agent_view_size % 2 = 1)
    THEN Raise("AssertionError", "agent_view_size % 2 == 1")
    ELSE
    LET w == a.corridor_length + 2
        h == 3
        g == _gen_grid(w, h)
    IN  IF g.raised THEN g
        ELSE Return([corridor_length |-> a.corridor_length,
                     agent_view_size |-> a.agent_view_size,
                     max_steps |-> a.max_steps,
                     grid_width |-> w,
                     grid_height |-> h,
                     start_pos |-> <<1, 1>>,
                     goal_pos |-> <<w - 2, 1>>,
                     grid |-> g.value,
                     agent_pos |-> <<1, 1>>,
                     agent_dir |-> UP,
                     _step_count |-> 0])

(* DoorCorridorEnv.__init__ up to the first raise; a is the record of the  *)
(* keyword arguments max_steps, corridor_length and agent_view_size.       *)
DoorInit(a) ==
    IF ~(a.agent_view_size % 2 = 1)
    THEN Raise("AssertionError", "agent_view_size % 2 == 1")
    ELSE IF ~(a.agent_view_size >= 3)
    THEN Raise("AssertionError", "agent_view_size >= 3")
    ELSE
    LET w == a.corridor_length + 2
        h == 3
        g == _gen_grid(w, h)
    IN  IF g.raised THEN g
        ELSE Return([corridor_length |-> a.corridor_length,
                     agent_view_size |-> a.agent_view_size,
                     max_steps |-> a.max_steps,
                     grid_width |-> w,
                     grid_height |-> h,
                     start_pos |-> <<1, 1>>,
                     goal_pos |-> <<w - 2, 1>>,
                     grid |-> g.value,
                     agent_pos |-> <<1, 1>>,
                     agent_dir |-> UP,
                     _step_count |-> 0])

-----------------------------------------------------------------------------
(* Private methods of DoorCorridorEnv, as functions of the grid g, the      *)
(* agent's position pos = <<x, y>> and its direction dir.                   *)

_with_grid(x, y) == 0 <= x /\ x < grid_width /\ 0 <= y /\ y < grid_height

_in_front_of_agent_coord(pos, dir) ==
    CASE dir = RIGHT -> <<pos[1] + 1, pos[2]>>
      [] dir = DOWN  -> <<pos[1], pos[2] + 1>>
      [] dir = LEFT  -> <<pos[1] - 1, pos[2]>>
      [] dir = UP    -> <<pos[1], pos[2] - 1>>

(* slip: facing left, the window is anchored as if facing right *)
_get_view_exts_LeftAsRight(pos, dir) ==
    LET half == agent_view_size \div 2
    IN  CASE dir = RIGHT -> <<pos[1], pos[2] - half>>
          [] dir = DOWN  -> <<pos[1] - half, pos[2]>>
          [] dir = LEFT  -> <<pos[1], pos[2] - half>>
          [] dir = UP    -> <<pos[1] - half, pos[2] - agent_view_size + 1>>

_get_view_exts(pos, dir) ==
    LET half == agent_view_size \div 2
    IN  CASE dir = RIGHT -> <<pos[1], pos[2] - half>>
          [] dir = DOWN  -> <<pos[1] - half, pos[2]>>
          [] dir = LEFT  -> <<pos[1] - agent_view_size + 1, pos[2] - half>>
          [] dir = UP    -> <<pos[1] - half, pos[2] - agent_view_size + 1>>

(* numpy.rot90 of a square n x n array m[row][col], k quarter turns        *)
(* counterclockwise: one turn sends m[j][n-1-i] to position [i][j].        *)
Rot90Once(m, n) ==
    [i \in 0 .. (n - 1) |-> [j \in 0 .. (n - 1) |-> m[j][n - 1 - i]]]

RECURSIVE Rot90(_, _, _)
Rot90(m, n, k) == IF k % 4 = 0 THEN m ELSE Rot90(Rot90Once(m, n), n, (k % 4) - 1)

(* slip: the scan of the centre column stops at the farthest closed door *)
_get_agent_pov_FarthestDoor(g, pos, dir) ==
    LET v == agent_view_size
        top == _get_view_exts(pos, dir)
        raw == [j \in 0 .. (v - 1) |-> [i \in 0 .. (v - 1) |->
                  LET x == top[1] + i
                      y == top[2] + j
                  IN  IF _with_grid(x, y) THEN g[y][x]
                      ELSE Cell(UNSEEN, 0)]]
        rot == IF dir # UP THEN Rot90(raw, v, dir + 1) ELSE raw
        cx  == v \div 2
        closed == {y \in 1 .. (v - 2) : rot[y][cx] = Cell(DOOR, CLOSED)}
    IN  IF closed = {} THEN rot
        ELSE LET y0 == CHOOSE y \in closed : \A z \in closed : z >= y
             IN  [j \in 0 .. (v - 1) |-> [i \in 0 .. (v - 1) |->
                    IF j < y0 THEN Cell(UNSEEN, UNSEEN) ELSE rot[j][i]]]

_get_agent_pov(g, pos, dir) ==
    LET v == agent_view_size
        top == _get_view_exts(pos, dir)
        raw == [j \in 0 .. (v - 1) |-> [i \in 0 .. (v - 1) |->
                  LET x == top[1] + i
                      y == top[2] + j
                  IN  IF _with_grid(x, y) THEN g[y][x]
                      ELSE Cell(UNSEEN, 0)]]
        rot == IF dir # UP THEN Rot90(raw, v, dir + 1) ELSE raw
        cx  == v \div 2
        closed == {y \in 1 .. (v - 2) : rot[y][cx] = Cell(DOOR, CLOSED)}
    IN  IF closed = {} THEN rot
        ELSE LET y0 == CHOOSE y \in closed : \A z \in closed : z <= y
             IN  [j \in 0 .. (v - 1) |-> [i \in 0 .. (v - 1) |->
                    IF j < y0 THEN Cell(UNSEEN, UNSEEN) ELSE rot[j][i]]]

DoorObservation(g, pos, dir) ==
    [image |-> _get_agent_pov(g, pos, dir), direction |-> dir]

-----------------------------------------------------------------------------
(* Arguments the callers construct the kernels with *)

View == {v \in 3 .. MaxView : v % 2 = 1}

(* a dictionary from optional entries: an empty set leaves the key out *)
Dict(len, start, goal, special, tol) ==
    LET present == {k \in {"corridor_length", "start_state", "goal_state",
                           "special_states", "truncate_tolerance"} :
                      CASE k = "corridor_length" -> len # {}
                        [] k = "start_state" -> start # {}
                        [] k = "goal_state" -> goal # {}
                        [] k = "special_states" -> special # {}
                        [] k = "truncate_tolerance" -> tol # {}}
    IN  [k \in present |->
           CASE k = "corridor_length" -> Val(len)
             [] k = "start_state" -> Val(start)
             [] k = "goal_state" -> Val(goal)
             [] k = "special_states" -> Val(special)
             [] k = "truncate_tolerance" -> Val(tol)]

Opt(S) == {{}} \cup {{x} : x \in S}

(* every key given, or none *)
DriverDicts ==
    {Dict({}, {}, {}, {}, {})} \cup
    {Dict({len}, {start}, {goal}, {special}, {tol}) :
        len \in 2 .. MaxLen,
        start \in Opt(0 .. (MaxLen - 1)),
        goal \in 0 .. (MaxLen - 1),
        special \in SUBSET (0 .. (MaxLen - 1)),
        tol \in 1 .. MaxTrunc}

(* any key given or left out, values in and out of range *)
AllDicts ==
    {Dict(len, start, goal, special, tol) :
        len \in Opt(0 .. MaxLen),
        start \in Opt(Opt(-1 .. MaxLen)),
        goal \in Opt(-1 .. MaxLen),
        special \in Opt({S \in SUBSET (-1 .. MaxLen) : Cardinality(S) <= 2}),
        tol \in Opt(-1 .. MaxTrunc)}

SmallArgs == {[truncate_tolerance |-> t] : t \in Opt(-1 .. MaxTrunc)}

DoorArgs(lens, steps, views) ==
    {[max_steps |-> m, corridor_length |-> l, agent_view_size |-> v] :
        m \in steps, l \in lens, v \in views}

DriverArgs(c) ==
    CASE c = "SmallCorridorEnv" -> SmallArgs
      [] c \in {"LongCorridorEnv", "CircularSSCorridorEnv"} ->
            {[customisation_cfg_dict |-> d] : d \in DriverDicts}
      [] c = "DoorCorridorEnv" ->
            DoorArgs(0 .. MaxGridLen,
                     (0 .. MaxTrunc) \cup {DOOR_DEFAULT_TRUNCATE_TOLERANCE},
                     View)

AllArgs(c) ==
    CASE c = "SmallCorridorEnv" -> SmallArgs
      [] c \in {"LongCorridorEnv", "CircularSSCorridorEnv"} ->
            {[customisation_cfg_dict |-> d] : d \in AllDicts}
      [] c = "DoorCorridorEnv" ->
            DoorArgs(-3 .. MaxGridLen,
                     (-1 .. MaxTrunc) \cup {DOOR_DEFAULT_TRUNCATE_TOLERANCE},
                     1 .. MaxView)

Classes == CorridorClasses \cup {"DoorCorridorEnv"}

(* actions the callers pass to step *)
Actions == {IntAct(n) : n \in -1 .. 4} \cup {StrAct(x) : x \in {"L", "R", "X"}}

-----------------------------------------------------------------------------
(* Before construction no attribute exists *)

Init ==
    /\ phase = "new"
    /\ cls = "none"
    /\ args = <<>>
    /\ corridor_length = Unset
    /\ truncate_tolerance = Unset
    /\ start_state = UnsetSet
    /\ goal_state = Unset
    /\ special_states = UnsetSet
    /\ _curr_start_state = Unset
    /\ _agent_location = Unset
    /\ _internal_step_counter = Unset
    /\ max_steps = Unset
    /\ agent_view_size = Unset
    /\ grid_width = Unset
    /\ grid_height = Unset
    /\ start_pos = UnsetSeq
    /\ goal_pos = UnsetSeq
    /\ grid = UnsetSeq
    /\ agent_pos = UnsetSeq
    /\ agent_dir = Unset
    /\ _step_count = Unset
    /\ ret = [call |-> "none", raised |-> FALSE]
    /\ calls = 0
    /\ hist = <<>>
    /\ draws = <<>>
    /\ _np_random_seed = None

(* BaseSpecialStateCorridorEnv.__init__ (through the subclass) and          *)
(* DoorCorridorEnv.__init__.  A constructor that raises yields no instance. *)
Construct(c, a) ==
    /\ phase = "new"
    /\ cls' = c
    /\ args' = a
    /\ UNCHANGED <<_curr_start_state, _agent_location,
                   _internal_step_counter, _np_random_seed, calls, hist,
                   draws>>
    /\ IF c \in CorridorClasses
       THEN LET r == CorridorInit(c, a)
            IN  /\ UNCHANGED grid_vars
                /\ IF r.raised
                   THEN /\ phase' = "failed"
                        /\ ret' = [call |-> "__init__", raised |-> TRUE,
                                   error |-> r.error, msg |-> r.msg]
                        /\ UNCHANGED <<corridor_length, truncate_tolerance,
                                       start_state, goal_state,
                                       special_states>>
                   ELSE /\ phase' = "constructed"
                        /\ ret' = [call |-> "__init__", raised |-> FALSE]
                        /\ truncate_tolerance' = r.value.truncate_tolerance
                        /\ corridor_length' = r.value.corridor_length
                        /\ start_state' = r.value.start_state
                        /\ goal_state' = r.value.goal_state
                        /\ special_states' = r.value.special_states
       ELSE LET r == DoorInit(a)
            IN  /\ UNCHANGED corridor_vars
                /\ IF r.raised
                   THEN /\ phase' = "failed"
                        /\ ret' = [call |-> "__init__", raised |-> TRUE,
                                   error |-> r.error, msg |-> r.msg]
                        /\ UNCHANGED <<corridor_length, grid_vars>>
                   ELSE /\ phase' = "constructed"
                        /\ ret' = [call |-> "__init__", raised |-> FALSE]
                        /\ corridor_length' = r.value.corridor_length
                        /\ agent_view_size' = r.value.agent_view_size
                        /\ max_steps' = r.value.max_steps
                        /\ grid_width' = r.value.grid_width
                        /\ grid_height' = r.value.grid_height
                        /\ start_pos' = r.value.start_pos
                        /\ goal_pos' = r.value.goal_pos
                        /\ grid' = r.value.grid
                        /\ agent_pos' = r.value.agent_pos
                        /\ agent_dir' = r.value.agent_dir
                        /\ _step_count' = r.value._step_count

-----------------------------------------------------------------------------
(* BaseSpecialStateCorridorEnv.reset(seed).  With no fixed start it calls   *)
(* super().reset(seed=seed), which seeds the generator of the instance     *)
(* when a seed is given, and then takes the location from                  *)
(* numpy.random.choice(corridor_length): a draw from numpy's global        *)
(* generator, whose state belongs to the whole process, so any index of    *)
(* the corridor.                                                           *)

(* slip: the step counter of the episode that ended is carried over *)
CorridorResetTo_KeepCount(p) ==
    /\ _agent_location' = p
    /\ _curr_start_state' = p
    /\ _internal_step_counter' = IF _internal_step_counter = Unset THEN 0
                                 ELSE _internal_step_counter
    /\ ret' = [call |-> "reset", raised |-> FALSE,
               observation |-> _get_agent_observation(p),
               info |-> [agent_location |-> p,
                         goal |-> goal_state,
                         distance_to_goal |-> _get_distance_to_goal(p)]]
    /\ calls' = 0
    /\ UNCHANGED <<phase, cls, args, corridor_length, truncate_tolerance,
                   start_state, goal_state, special_states, grid_vars>>

CorridorResetTo(p) ==
    /\ _agent_location' = p
    /\ _curr_start_state' = p
    /\ _internal_step_counter' = 0
    /\ ret' = [call |-> "reset", raised |-> FALSE,
               observation |-> _get_agent_observation(p),
               info |-> [agent_location |-> p,
                         goal |-> goal_state,
                         distance_to_goal |-> _get_distance_to_goal(p)]]
    /\ calls' = 0
    /\ UNCHANGED <<phase, cls, args, corridor_length, truncate_tolerance,
                   start_state, goal_state, special_states, grid_vars>>

CorridorReset(seed) ==
    /\ phase = "constructed"
    /\ cls \in CorridorClasses
    /\ IF start_state # None
       THEN /\ CorridorResetTo(Val(start_state))
            /\ UNCHANGED _np_random_seed
       ELSE /\ _np_random_seed' = IF seed # None THEN seed
                                  ELSE _np_random_seed
            /\ \E p \in 0 .. (corridor_length - 1) : CorridorResetTo(p)

(* BaseSpecialStateCorridorEnv.step.  _get_agent_new_location runs first:  *)
(* it raises AttributeError when reset has never assigned _agent_location  *)
(* and AssertionError on an action outside the action space.               *)
CorridorStepResult(action) ==
    IF _agent_location = Unset
    THEN Raise("AttributeError", "_agent_location")
    ELSE _get_agent_new_location(_agent_location, action)

(* slips in the values step returns: no penalty on the step that reaches  *)
(* the goal; the limit compared with > instead of >=                      *)
CorridorStepReturn_FreeGoal(action, p, count) ==
    LET terminated == (p = goal_state)
        truncated == (count >= truncate_tolerance)
        reward == IF terminated THEN 0 ELSE -1
    IN  [call |-> "step", action |-> action, raised |-> FALSE,
         observation |-> _get_agent_observation(p),
         reward |-> reward,
         terminated |-> terminated,
         truncated |-> truncated,
         info |-> [action |-> _get_action_str(action).value,
                   observation |-> _get_agent_observation(p),
                   reward |-> reward,
                   terminated |-> terminated,
                   truncated |-> truncated,
                   distance_to_goal |-> _get_distance_to_goal(p)]]

CorridorStepReturn_StrictLimit(action, p, count) ==
    LET terminated == (p = goal_state)
        truncated == (count > truncate_tolerance)
        reward == -1
    IN  [call |-> "step", action |-> action, raised |-> FALSE,
         observation |-> _get_agent_observation(p),
         reward |-> reward,
         terminated |-> terminated,
         truncated |-> truncated,
         info |-> [action |-> _get_action_str(action).value,
                   observation |-> _get_agent_observation(p),
                   reward |-> reward,
                   terminated |-> terminated,
                   truncated |-> truncated,
                   distance_to_goal |-> _get_distance_to_goal(p)]]

(* slip: truncated only on the step that reaches the limit *)
CorridorStepReturn_ExactLimit(action, p, count) ==
    LET terminated == (p = goal_state)
        truncated == (count = truncate_tolerance)
        reward == -1
    IN  [call |-> "step", action |-> action, raised |-> FALSE,
         observation |-> _get_agent_observation(p),
         reward |-> reward,
         terminated |-> terminated,
         truncated |-> truncated,
         info |-> [action |-> _get_action_str(action).value,
                   observation |-> _get_agent_observation(p),
                   reward |-> reward,
                   terminated |-> terminated,
                   truncated |-> truncated,
                   distance_to_goal |-> _get_distance_to_goal(p)]]

CorridorStepReturn(action, p, count) ==
    LET terminated == (p = goal_state)
        truncated == (count >= truncate_tolerance)
        reward == -1
    IN  [call |-> "step", action |-> action, raised |-> FALSE,
         observation |-> _get_agent_observation(p),
         reward |-> reward,
         terminated |-> terminated,
         truncated |-> truncated,
         info |-> [action |-> _get_action_str(action).value,
                   observation |-> _get_agent_observation(p),
                   reward |-> reward,
                   terminated |-> terminated,
                   truncated |-> truncated,
                   distance_to_goal |-> _get_distance_to_goal(p)]]

(* slip: a step of an episode that is over returns without acting *)
CorridorStep_EndBlocks(action) ==
    /\ phase = "constructed"
    /\ cls \in CorridorClasses
    /\ LET r == CorridorStepResult(action)
           over == \/ _agent_location = goal_state
                   \/ _internal_step_counter >= truncate_tolerance
       IN  IF r.raised
           THEN /\ ret' = [call |-> "step", action |-> action,
                           raised |-> TRUE, error |-> r.error,
                           msg |-> r.msg]
                /\ UNCHANGED <<_agent_location, _internal_step_counter,
                               calls>>
           ELSE IF over
           THEN /\ ret' = CorridorStepReturn(action, _agent_location,
                                             _internal_step_counter)
                /\ calls' = calls + 1
                /\ UNCHANGED <<_agent_location, _internal_step_counter>>
           ELSE /\ _agent_location' = r.value
                /\ _internal_step_counter' = _internal_step_counter + 1
                /\ ret' = CorridorStepReturn(action, r.value,
                                             _internal_step_counter + 1)
                /\ calls' = calls + 1
    /\ UNCHANGED <<phase, cls, args, corridor_length, truncate_tolerance,
                   start_state, goal_state, special_states,
                   _curr_start_state, _np_random_seed, grid_vars>>

CorridorStep(action) ==
    /\ phase = "constructed"
    /\ cls \in CorridorClasses
    /\ LET r == CorridorStepResult(action)
       IN  IF r.raised
           THEN /\ ret' = [call |-> "step", action |-> action,
                           raised |-> TRUE, error |-> r.error,
                           msg |-> r.msg]
                /\ UNCHANGED <<_agent_location, _internal_step_counter,
                               calls>>
           ELSE /\ _agent_location' = r.value
                /\ _internal_step_counter' = _internal_step_counter + 1
                /\ ret' = CorridorStepReturn(action, r.value,
                                             _internal_step_counter + 1)
                /\ calls' = calls + 1
    /\ UNCHANGED <<phase, cls, args, corridor_length, truncate_tolerance,
                   start_state, goal_state, special_states,
                   _curr_start_state, _np_random_seed, grid_vars>>

-----------------------------------------------------------------------------
(* DoorCorridorEnv.reset and DoorCorridorEnv.step *)

(* slip: reset leaves the agent facing along the corridor *)
DoorReset_FacingRight ==
    /\ phase = "constructed"
    /\ cls = "DoorCorridorEnv"
    /\ LET g == _gen_grid(grid_width, grid_height)
       IN  /\ agent_pos' = start_pos
           /\ agent_dir' = RIGHT
           /\ _step_count' = 0
           /\ grid' = g.value
           /\ ret' = [call |-> "reset", raised |-> FALSE,
                      observation |-> DoorObservation(g.value, start_pos, RIGHT),
                      info |-> <<>>]
    /\ calls' = 0
    /\ UNCHANGED <<phase, cls, args, corridor_length, corridor_vars,
                   max_steps, agent_view_size, grid_width, grid_height,
                   start_pos, goal_pos>>

(* slip: reset puts the agent back and leaves the grid as the episode left it *)
DoorReset_KeepGrid ==
    /\ phase = "constructed"
    /\ cls = "DoorCorridorEnv"
    /\ agent_pos' = start_pos
    /\ agent_dir' = UP
    /\ _step_count' = 0
    /\ grid' = grid
    /\ ret' = [call |-> "reset", raised |-> FALSE,
               observation |-> DoorObservation(grid, start_pos, UP),
               info |-> <<>>]
    /\ calls' = 0
    /\ UNCHANGED <<phase, cls, args, corridor_length, corridor_vars,
                   max_steps, agent_view_size, grid_width, grid_height,
                   start_pos, goal_pos>>

DoorReset ==
    /\ phase = "constructed"
    /\ cls = "DoorCorridorEnv"
    /\ LET g == _gen_grid(grid_width, grid_height)
       IN  /\ agent_pos' = start_pos
           /\ agent_dir' = UP
           /\ _step_count' = 0
           /\ grid' = g.value
           /\ ret' = [call |-> "reset", raised |-> FALSE,
                      observation |-> DoorObservation(g.value, start_pos, UP),
                      info |-> <<>>]
    /\ calls' = 0
    /\ UNCHANGED <<phase, cls, args, corridor_length, corridor_vars,
                   max_steps, agent_view_size, grid_width, grid_height,
                   start_pos, goal_pos>>

DoorValidAction(action) == action.t = "int" /\ action.i \in DoorCorridorAction

(* slip: the step is counted before the action is validated *)
DoorStepRaise_CountFirst(action) ==
    /\ ret' = [call |-> "step", action |-> action, raised |-> TRUE,
               error |-> "AssertionError", msg |-> "Invalid action"]
    /\ _step_count' = _step_count + 1
    /\ UNCHANGED <<agent_pos, agent_dir, grid, calls>>

(* the assert at the head of step fails: nothing has been assigned yet *)
DoorStepRaise(action) ==
    /\ ret' = [call |-> "step", action |-> action, raised |-> TRUE,
               error |-> "AssertionError", msg |-> "Invalid action"]
    /\ UNCHANGED <<agent_pos, agent_dir, grid, _step_count, calls>>

(* slip: Toggle flips the state of whatever cell is ahead *)
DoorStep_ToggleAnything(action) ==
    /\ phase = "constructed"
    /\ cls = "DoorCorridorEnv"
    /\ IF ~DoorValidAction(action)
       THEN DoorStepRaise(action)
       ELSE LET a == action.i
                front == _in_front_of_agent_coord(agent_pos, agent_dir)
                i_x == front[1]
                i_y == front[2]
                dir == CASE a = LEFT_ACTION -> turn_left(agent_dir)
                         [] a = RIGHT_ACTION -> turn_right(agent_dir)
                         [] OTHER -> agent_dir
                pos == IF /\ a = FORWARD
                          /\ _with_grid(i_x, i_y)
                          /\ grid[i_y][i_x][1] = OPEN
                          /\ grid[i_y][i_x][0] # WALL
                       THEN <<i_x, i_y>>
                       ELSE agent_pos
                g == IF /\ a = TOGGLE
                        /\ _with_grid(i_x, i_y)
                     THEN [grid EXCEPT ![i_y][i_x][1] = toggle(@)]
                     ELSE grid
                count == _step_count + 1
            IN  /\ _step_count' = count
                /\ agent_dir' = dir
                /\ agent_pos' = pos
                /\ grid' = g
                /\ ret' = [call |-> "step", action |-> action,
                           raised |-> FALSE,
                           observation |-> DoorObservation(g, pos, dir),
                           reward |-> -1,
                           terminated |-> (pos = goal_pos),
                           truncated |-> (count >= max_steps),
                           info |-> [action |-> DoorCorridorActionName(a),
                                     agent_direction |->
                                         AgentDirectionName(dir)]]
                /\ calls' = calls + 1
    /\ UNCHANGED <<phase, cls, args, corridor_length, corridor_vars,
                   max_steps, agent_view_size, grid_width, grid_height,
                   start_pos, goal_pos>>

(* slip: MoveForward does not look at the state of the cell ahead *)
DoorStep_ThroughDoors(action) ==
    /\ phase = "constructed"
    /\ cls = "DoorCorridorEnv"
    /\ IF ~DoorValidAction(action)
       THEN DoorStepRaise(action)
       ELSE LET a == action.i
                front == _in_front_of_agent_coord(agent_pos, agent_dir)
                i_x == front[1]
                i_y == front[2]
                dir == CASE a = LEFT_ACTION -> turn_left(agent_dir)
                         [] a = RIGHT_ACTION -> turn_right(agent_dir)
                         [] OTHER -> agent_dir
                pos == IF /\ a = FORWARD
                          /\ _with_grid(i_x, i_y)
                          /\ grid[i_y][i_x][0] # WALL
                       THEN <<i_x, i_y>>
                       ELSE agent_pos
                g == IF /\ a = TOGGLE
                        /\ _with_grid(i_x, i_y)
                        /\ grid[i_y][i_x][0] = DOOR
                     THEN [grid EXCEPT ![i_y][i_x][1] = toggle(@)]
                     ELSE grid
                count == _step_count + 1
            IN  /\ _step_count' = count
                /\ agent_dir' = dir
                /\ agent_pos' = pos
                /\ grid' = g
                /\ ret' = [call |-> "step", action |-> action,
                           raised |-> FALSE,
                           observation |-> DoorObservation(g, pos, dir),
                           reward |-> -1,
                           terminated |-> (pos = goal_pos),
                           truncated |-> (count >= max_steps),
                           info |-> [action |-> DoorCorridorActionName(a),
                                     agent_direction |->
                                         AgentDirectionName(dir)]]
                /\ calls' = calls + 1
    /\ UNCHANGED <<phase, cls, args, corridor_length, corridor_vars,
                   max_steps, agent_view_size, grid_width, grid_height,
                   start_pos, goal_pos>>

(* slip: MoveForward against a closed door opens it *)
DoorStep_PushOpens(action) ==
    /\ phase = "constructed"
    /\ cls = "DoorCorridorEnv"
    /\ IF ~DoorValidAction(action)
       THEN DoorStepRaise(action)
       ELSE LET a == action.i
                front == _in_front_of_agent_coord(agent_pos, agent_dir)
                i_x == front[1]
                i_y == front[2]
                dir == CASE a = LEFT_ACTION -> turn_left(agent_dir)
                         [] a = RIGHT_ACTION -> turn_right(agent_dir)
                         [] OTHER -> agent_dir
                pos == IF /\ a = FORWARD
                          /\ _with_grid(i_x, i_y)
                          /\ grid[i_y][i_x][1] = OPEN
                          /\ grid[i_y][i_x][0] # WALL
                       THEN <<i_x, i_y>>
                       ELSE agent_pos
                g == IF /\ a \in {TOGGLE, FORWARD}
                        /\ _with_grid(i_x, i_y)
                        /\ grid[i_y][i_x][0] = DOOR
                        /\ a = FORWARD => grid[i_y][i_x][1] = CLOSED
                     THEN [grid EXCEPT ![i_y][i_x][1] = toggle(@)]
                     ELSE grid
                count == _step_count + 1
            IN  /\ _step_count' = count
                /\ agent_dir' = dir
                /\ agent_pos' = pos
                /\ grid' = g
                /\ ret' = [call |-> "step", action |-> action,
                           raised |-> FALSE,
                           observation |-> DoorObservation(g, pos, dir),
                           reward |-> -1,
                           terminated |-> (pos = goal_pos),
                           truncated |-> (count >= max_steps),
                           info |-> [action |-> DoorCorridorActionName(a),
                                     agent_direction |->
                                         AgentDirectionName(dir)]]
                /\ calls' = calls + 1
    /\ UNCHANGED <<phase, cls, args, corridor_length, corridor_vars,
                   max_steps, agent_view_size, grid_width, grid_height,
                   start_pos, goal_pos>>

(* slip: a turn is not counted as a step *)
DoorStep_TurnsFree(action) ==
    /\ phase = "constructed"
    /\ cls = "DoorCorridorEnv"
    /\ IF ~DoorValidAction(action)
       THEN DoorStepRaise(action)
       ELSE LET a == action.i
                front == _in_front_of_agent_coord(agent_pos, agent_dir)
                i_x == front[1]
                i_y == front[2]
                dir == CASE a = LEFT_ACTION -> turn_left(agent_dir)
                         [] a = RIGHT_ACTION -> turn_right(agent_dir)
                         [] OTHER -> agent_dir
                pos == IF /\ a = FORWARD
                          /\ _with_grid(i_x, i_y)
                          /\ grid[i_y][i_x][1] = OPEN
                          /\ grid[i_y][i_x][0] # WALL
                       THEN <<i_x, i_y>>
                       ELSE agent_pos
                g == IF /\ a = TOGGLE
                        /\ _with_grid(i_x, i_y)
                        /\ grid[i_y][i_x][0] = DOOR
                     THEN [grid EXCEPT ![i_y][i_x][1] = toggle(@)]
                     ELSE grid
                count == IF a \in {LEFT_ACTION, RIGHT_ACTION} THEN _step_count
                         ELSE _step_count + 1
            IN  /\ _step_count' = count
                /\ agent_dir' = dir
                /\ agent_pos' = pos
                /\ grid' = g
                /\ ret' = [call |-> "step", action |-> action,
                           raised |-> FALSE,
                           observation |-> DoorObservation(g, pos, dir),
                           reward |-> -1,
                           terminated |-> (pos = goal_pos),
                           truncated |-> (count >= max_steps),
                           info |-> [action |-> DoorCorridorActionName(a),
                                     agent_direction |->
                                         AgentDirectionName(dir)]]
                /\ calls' = calls + 1
    /\ UNCHANGED <<phase, cls, args, corridor_length, corridor_vars,
                   max_steps, agent_view_size, grid_width, grid_height,
                   start_pos, goal_pos>>

(* slip: the view returned is taken before the door is toggled *)
DoorStep_StaleView(action) ==
    /\ phase = "constructed"
    /\ cls = "DoorCorridorEnv"
    /\ IF ~DoorValidAction(action)
       THEN DoorStepRaise(action)
       ELSE LET a == action.i
                front == _in_front_of_agent_coord(agent_pos, agent_dir)
                i_x == front[1]
                i_y == front[2]
                dir == CASE a = LEFT_ACTION -> turn_left(agent_dir)
                         [] a = RIGHT_ACTION -> turn_right(agent_dir)
                         [] OTHER -> agent_dir
                pos == IF /\ a = FORWARD
                          /\ _with_grid(i_x, i_y)
                          /\ grid[i_y][i_x][1] = OPEN
                          /\ grid[i_y][i_x][0] # WALL
                       THEN <<i_x, i_y>>
                       ELSE agent_pos
                g == IF /\ a = TOGGLE
                        /\ _with_grid(i_x, i_y)
                        /\ grid[i_y][i_x][0] = DOOR
                     THEN [grid EXCEPT ![i_y][i_x][1] = toggle(@)]
                     ELSE grid
                count == _step_count + 1
            IN  /\ _step_count' = count
                /\ agent_dir' = dir
                /\ agent_pos' = pos
                /\ grid' = g
                /\ ret' = [call |-> "step", action |-> action,
                           raised |-> FALSE,
                           observation |-> DoorObservation(grid, pos, dir),
                           reward |-> -1,
                           terminated |-> (pos = goal_pos),
                           truncated |-> (count >= max_steps),
                           info |-> [action |-> DoorCorridorActionName(a),
                                     agent_direction |->
                                         AgentDirectionName(dir)]]
                /\ calls' = calls + 1
    /\ UNCHANGED <<phase, cls, args, corridor_length, corridor_vars,
                   max_steps, agent_view_size, grid_width, grid_height,
                   start_pos, goal_pos>>

(* slip: moving forward does not look at the kind of the cell ahead *)
DoorStep_ThroughWalls(action) ==
    /\ phase = "constructed"
    /\ cls = "DoorCorridorEnv"
    /\ IF ~DoorValidAction(action)
       THEN DoorStepRaise(action)
       ELSE LET a == action.i
                front == _in_front_of_agent_coord(agent_pos, agent_dir)
                i_x == front[1]
                i_y == front[2]
                dir == CASE a = LEFT_ACTION -> turn_left(agent_dir)
                         [] a = RIGHT_ACTION -> turn_right(agent_dir)
                         [] OTHER -> agent_dir
                pos == IF /\ a = FORWARD
                          /\ _with_grid(i_x, i_y)
                          /\ grid[i_y][i_x][1] = OPEN
                       THEN <<i_x, i_y>>
                       ELSE agent_pos
                g == IF /\ a = TOGGLE
                        /\ _with_grid(i_x, i_y)
                        /\ grid[i_y][i_x][0] = DOOR
                     THEN [grid EXCEPT ![i_y][i_x][1] = toggle(@)]
                     ELSE grid
                count == _step_count + 1
            IN  /\ _step_count' = count
                /\ agent_dir' = dir
                /\ agent_pos' = pos
                /\ grid' = g
                /\ ret' = [call |-> "step", action |-> action,
                           raised |-> FALSE,
                           observation |-> DoorObservation(g, pos, dir),
                           reward |-> -1,
                           terminated |-> (pos = goal_pos),
                           truncated |-> (count >= max_steps),
                           info |-> [action |-> DoorCorridorActionName(a),
                                     agent_direction |->
                                         AgentDirectionName(dir)]]
                /\ calls' = calls + 1
    /\ UNCHANGED <<phase, cls, args, corridor_length, corridor_vars,
                   max_steps, agent_view_size, grid_width, grid_height,
                   start_pos, goal_pos>>

DoorStep(action) ==
    /\ phase = "constructed"
    /\ cls = "DoorCorridorEnv"
    /\ IF ~DoorValidAction(action)
       THEN DoorStepRaise(action)
       ELSE LET a == action.i
                front == _in_front_of_agent_coord(agent_pos, agent_dir)
                i_x == front[1]
                i_y == front[2]
                dir == CASE a = LEFT_ACTION -> turn_left(agent_dir)
                         [] a = RIGHT_ACTION -> turn_right(agent_dir)
                         [] OTHER -> agent_dir
                pos == IF /\ a = FORWARD
                          /\ _with_grid(i_x, i_y)
                          /\ grid[i_y][i_x][1] = OPEN
                          /\ grid[i_y][i_x][0] # WALL
                       THEN <<i_x, i_y>>
                       ELSE agent_pos
                g == IF /\ a = TOGGLE
                        /\ _with_grid(i_x, i_y)
                        /\ grid[i_y][i_x][0] = DOOR
                     THEN [grid EXCEPT ![i_y][i_x][1] = toggle(@)]
                     ELSE grid
                count == _step_count + 1
            IN  /\ _step_count' = count
                /\ agent_dir' = dir
                /\ agent_pos' = pos
                /\ grid' = g
                /\ ret' = [call |-> "step", action |-> action,
                           raised |-> FALSE,
                           observation |-> DoorObservation(g, pos, dir),
                           reward |-> -1,
                           terminated |-> (pos = goal_pos),
                           truncated |-> (count >= max_steps),
                           info |-> [action |-> DoorCorridorActionName(a),
                                     agent_direction |->
                                         AgentDirectionName(dir)]]
                /\ calls' = calls + 1
    /\ UNCHANGED <<phase, cls, args, corridor_length, corridor_vars,
                   max_steps, agent_view_size, grid_width, grid_height,
                   start_pos, goal_pos>>

-----------------------------------------------------------------------------
(* The specifications *)

ConstructDriver ==
    phase = "new" /\ \E c \in Classes : \E a \in DriverArgs(c) : Construct(c, a)
ConstructAny ==
    phase = "new" /\ \E c \in Classes : \E a \in AllArgs(c) : Construct(c, a)
ConstructSmall ==
    phase = "new" /\ \E a \in SmallArgs : Construct("SmallCorridorEnv", a)

CorridorStepBounded ==
    \E action \in Actions : calls < MaxSteps /\ CorridorStep(action)
DoorStepBounded ==
    \E action \in Actions : calls < MaxGridSteps /\ DoorStep(action)

Reset == (CorridorReset(None) \/ DoorReset) /\ UNCHANGED <<hist, draws>>
Step == (CorridorStepBounded \/ DoorStepBounded) /\ UNCHANGED <<hist, draws>>

(* one kernel, constructed from well-formed or default arguments, driven   *)
(* by any sequence of reset and step                                       *)
Next == ConstructDriver \/ Reset \/ Step
Spec == Init /\ [][Next]_vars

(* construction alone, from any arguments *)
ConfigNext == ConstructAny
ConfigSpec == Init /\ [][ConfigNext]_vars

(* the small corridor with the calls of each episode recorded *)
ResetH == CorridorReset(None) /\ hist' = <<>> /\ UNCHANGED draws
StepH ==
    \E action \in Actions :
        /\ calls < MaxHist
        /\ CorridorStep(action)
        /\ UNCHANGED draws
        /\ hist' = IF ret'.raised THEN hist
                   ELSE Append(hist, [action |-> ret'.info.action,
                                      position |-> _agent_location',
                                      reward |-> ret'.reward,
                                      terminated |-> ret'.terminated])
HistNext == ConstructSmall \/ ResetH \/ StepH
HistSpec == Init /\ [][HistNext]_vars

(* a corridor built from a configuration, reset again and again with or    *)
(* without a seed, the seed and the start of each reset recorded           *)
SeedDicts ==
    {Dict({}, {}, {}, {}, {})} \cup
    {Dict({len}, {start}, {len - 1}, {{}}, {MaxTrunc}) :
        len \in 2 .. MaxLen, start \in Opt({0})}
SeedConstruct ==
    phase = "new" /\ \E c \in {"LongCorridorEnv", "CircularSSCorridorEnv"} :
                        \E d \in SeedDicts :
                            Construct(c, [customisation_cfg_dict |-> d])
SeedReset ==
    \E seed \in Opt(0 .. MaxSeed) :
        /\ Len(draws) < MaxDraws
        /\ CorridorReset(seed)
        /\ draws' = Append(draws, [seed |-> seed, start |-> _agent_location'])
        /\ UNCHANGED hist
SeedNext == SeedConstruct \/ SeedReset
SeedSpec == Init /\ [][SeedNext]_vars

(* a kernel driven through episodes that go on after they have ended, the  *)
(* flags of the steps that returned recorded since the last reset          *)
EpisodeArgs(c) ==
    IF c = "DoorCorridorEnv"
    THEN DoorArgs(1 .. MaxLen, 1 .. MaxTrunc, View)
    ELSE DriverArgs(c)
EpisodeConstruct ==
    phase = "new" /\ \E c \in Classes : \E a \in EpisodeArgs(c) : Construct(c, a)
EpisodeReset ==
    (CorridorReset(None) \/ DoorReset) /\ hist' = <<>> /\ UNCHANGED draws
EpisodeStep ==
    /\ \/ CorridorStepBounded
       \/ \E action \in Actions : calls < MaxEpisodeSteps /\ DoorStep(action)
    /\ UNCHANGED draws
    /\ hist' = IF ret'.raised THEN hist
               ELSE Append(hist, [terminated |-> ret'.terminated,
                                  truncated |-> ret'.truncated])
EpisodeNext == EpisodeConstruct \/ EpisodeReset \/ EpisodeStep
EpisodeSpec == Init /\ [][EpisodeNext]_vars

(* a door corridor of the default or a short limit, stepped with the       *)
(* actions of its action space for as many steps as the longest corridor   *)
(* needs from the start cell to the goal                                   *)
GoalArgs ==
    DoorArgs(1 .. MaxGridLen, {MaxTrunc, DOOR_DEFAULT_TRUNCATE_TOLERANCE},
             View)
GoalConstruct ==
    phase = "new" /\ \E a \in GoalArgs : Construct("DoorCorridorEnv", a)
GoalReset == DoorReset /\ UNCHANGED <<hist, draws>>
GoalStep ==
    \E a \in DoorCorridorAction :
        /\ calls < 2 * MaxGridLen - 2
        /\ DoorStep(IntAct(a))
        /\ UNCHANGED <<hist, draws>>
GoalNext == GoalConstruct \/ GoalReset \/ GoalStep
GoalSpec == Init /\ [][GoalNext]_vars

-----------------------------------------------------------------------------
(* Properties *)

\* C1: in the linear corridor a step that returns moves the agent from p to
\* clamp(p + d, 0, length - 1), where d is -1 for Left and +1 for Right when
\* p is not special and +1 for Left and -1 for Right when p is special, p
\* being the position held before the move.
C1_LinearStep ==
    [][(cls \in {"SmallCorridorEnv", "LongCorridorEnv"} /\ calls' = calls + 1)
       => LET p == _agent_location
              left == ret'.action \in {IntAct(0), StrAct("L")}
              d == IF p \in special_states
                   THEN (IF left THEN 1 ELSE -1)
                   ELSE (IF left THEN -1 ELSE 1)
              q == p + d
          IN  /\ p \in 0 .. (corridor_length - 1)
              /\ ret'.action \in {IntAct(0), IntAct(1), StrAct("L"), StrAct("R")}
              /\ _agent_location' = IF q < 0 THEN 0
                                    ELSE IF q > corridor_length - 1
                                    THEN corridor_length - 1
                                    ELSE q]_vars

\* a Left has just carried the agent onto the rightmost cell, which is not
\* special: it left the special cell next to it, moving +1
C1_Witness ==
    /\ cls = "LongCorridorEnv"
    /\ ret.call = "step" /\ ~ret.raised
    /\ ret.action = IntAct(0)
    /\ _agent_location = corridor_length - 1
    /\ (corridor_length - 1) \notin special_states

\* C2: in the circular corridor a step that returns moves the agent from p to
\* (p + d) mod length, d inverted at special positions as in the linear
\* corridor: -1 from 0 gives length - 1, +1 from length - 1 gives 0, and the
\* result is never negative.
C2_CircularStep ==
    [][(cls = "CircularSSCorridorEnv" /\ calls' = calls + 1)
       => LET p == _agent_location
              left == ret'.action \in {IntAct(0), StrAct("L")}
              d == IF p \in special_states
                   THEN (IF left THEN 1 ELSE -1)
                   ELSE (IF left THEN -1 ELSE 1)
              q == p + d
          IN  /\ _agent_location' = IF q < 0 THEN q + corridor_length
                                    ELSE IF q >= corridor_length
                                    THEN q - corridor_length
                                    ELSE q
              /\ _agent_location' >= 0
              /\ (p = 0 /\ d = -1) => _agent_location' = corridor_length - 1
              /\ (p = corridor_length - 1 /\ d = 1) => _agent_location' = 0]_vars

\* with no special state, a Left has just carried the agent onto the last
\* cell of a corridor of three cells or more: it wrapped round from cell 0
C2_Witness ==
    /\ cls = "CircularSSCorridorEnv"
    /\ ret.call = "step" /\ ~ret.raised
    /\ ret.action = StrAct("L")
    /\ special_states = {}
    /\ corridor_length >= 3
    /\ _agent_location = corridor_length - 1

\* C3: every corridor step that returns has reward -1 and terminated true
\* exactly when the position after the move is the goal, also on the step
\* that terminates and on the step that truncates.
C3_RewardAndTermination ==
    (cls \in CorridorClasses /\ ret.call = "step" /\ ~ret.raised)
    => /\ ret.reward = -1
       /\ ret.terminated = (_agent_location = goal_state)

\* a step that at once reaches the goal and exhausts the limit
C3_Witness ==
    /\ cls \in CorridorClasses
    /\ ret.call = "step" /\ ~ret.raised
    /\ ret.terminated /\ ret.truncated
    /\ ret.reward = -1

\* C4: with truncation limit T the k-th step that returns after a reset has
\* truncated = (k >= T), whatever terminated is; the step counter is 0 after
\* reset and one more after every step that returns, and it is compared with
\* T after the increment.
C4_Truncation ==
    (cls \in CorridorClasses /\ _curr_start_state # Unset)
    => /\ _internal_step_counter = calls
       /\ ret.call = "reset" => _internal_step_counter = 0
       /\ (ret.call = "step" /\ ~ret.raised)
          => ret.truncated = (calls >= truncate_tolerance)

\* the second step under a limit of 2 is truncated without being terminated
C4_Witness ==
    /\ cls \in CorridorClasses
    /\ ret.call = "step" /\ ~ret.raised
    /\ truncate_tolerance = 2
    /\ calls = 2
    /\ ret.truncated /\ ~ret.terminated

\* C5 as claimed: in the small corridor (length 4, start 0, goal 3, special
\* {1}) the actions Right, Right, Left, Left, Right from reset take the agent
\* through 0, 1, 0, 1, 2, 3 with terminated true on the fifth step only and
\* reward -1 on every step.
C5_Original ==
    LET script == <<"R", "R", "L", "L", "R">>
        path == <<1, 0, 1, 2, 3>>
    IN  (/\ cls = "SmallCorridorEnv"
         /\ Len(hist) \in 1 .. 5
         /\ \A k \in 1 .. Len(hist) : hist[k].action = script[k])
        => /\ _curr_start_state = 0
           /\ \A k \in 1 .. Len(hist) :
                 /\ hist[k].position = path[k]
                 /\ hist[k].reward = -1
                 /\ hist[k].terminated = (k = 5)

\* C5: in the small corridor the actions Right, Right, Right, Left, Right
\* from reset take the agent through 0, 1, 0, 1, 2, 3 with terminated true on
\* the fifth step only and reward -1 on every step.
C5_SmallCorridorScript ==
    LET script == <<"R", "R", "R", "L", "R">>
        path == <<1, 0, 1, 2, 3>>
    IN  (/\ cls = "SmallCorridorEnv"
         /\ Len(hist) \in 1 .. 5
         /\ \A k \in 1 .. Len(hist) : hist[k].action = script[k])
        => /\ _curr_start_state = 0
           /\ \A k \in 1 .. Len(hist) :
                 /\ hist[k].position = path[k]
                 /\ hist[k].reward = -1
                 /\ hist[k].terminated = (k = 5)

\* the five actions have been played and the agent stands on the goal
C5_Witness ==
    /\ cls = "SmallCorridorEnv"
    /\ Len(hist) = 5
    /\ \A k \in 1 .. 5 : hist[k].action = <<"R", "R", "R", "L", "R">>[k]
    /\ _agent_location = 3

\* C6: the observation returned by reset and by every step holds the current
\* position and a wall sensor that is, in the linear corridor, (1,0) at
\* position 0, (0,1) at position length - 1 and (0,0) elsewhere, and in the
\* circular corridor (0,0) everywhere.
C6_Observation ==
    (cls \in CorridorClasses /\ ret.call \in {"reset", "step"} /\ ~ret.raised)
    => /\ ret.observation.agent_location = _agent_location
       /\ ret.observation.wall_status =
             IF cls = "CircularSSCorridorEnv" THEN <<0, 0>>
             ELSE IF _agent_location = 0 THEN <<1, 0>>
             ELSE IF _agent_location = corridor_length - 1 THEN <<0, 1>>
             ELSE <<0, 0>>

\* a step has brought the agent to the right end of a linear corridor
C6_Witness ==
    /\ cls = "LongCorridorEnv"
    /\ ret.call = "step" /\ ~ret.raised
    /\ _agent_location = corridor_length - 1
    /\ ret.observation.wall_status = <<0, 1>>

\* C7: distance_to_goal in the info of reset and of every step is |a - g| in
\* the linear corridor and min(|a - g|, length - |a - g|) in the circular
\* one, a the current position and g the goal; it is 0 exactly at the goal.
C7_DistanceToGoal ==
    (cls \in CorridorClasses /\ ret.call \in {"reset", "step"} /\ ~ret.raised)
    => LET a == _agent_location
           g == goal_state
           diff == IF a >= g THEN a - g ELSE g - a
           round == corridor_length - diff
       IN  /\ ret.info.distance_to_goal =
                 IF cls = "CircularSSCorridorEnv"
                 THEN (IF diff <= round THEN diff ELSE round)
                 ELSE diff
           /\ (ret.info.distance_to_goal = 0) = (a = g)

\* a step in the circular corridor ends where the way round is the shorter
C7_Witness ==
    /\ cls = "CircularSSCorridorEnv"
    /\ ret.call = "step" /\ ~ret.raised
    /\ Abs(_agent_location - goal_state) = corridor_length - 1
    /\ ret.info.distance_to_goal = 1
    /\ corridor_length >= 3

\* C8: in both kernels a step whose action is outside the action space
\* (corridor: not 0, 1, "L" or "R"; grid: not 0..3) raises and leaves the
\* position, the step counter and, in the grid, the direction and every cell
\* as they were.
C8_AtomicInvalidAction ==
    [][(/\ ret'.call = "step"
        /\ IF cls \in CorridorClasses
           THEN ret'.action \notin {IntAct(0), IntAct(1), StrAct("L"), StrAct("R")}
           ELSE ret'.action \notin {IntAct(0), IntAct(1), IntAct(2), IntAct(3)})
       => /\ ret'.raised
          /\ UNCHANGED <<_agent_location, _internal_step_counter,
                         _curr_start_state, agent_pos, agent_dir, grid,
                         _step_count>>]_vars

\* the grid has refused an action after a door was opened: the door is still
\* open and the two steps made are still counted
C8_Witness ==
    /\ cls = "DoorCorridorEnv"
    /\ ret.call = "step" /\ ret.raised
    /\ ret.action = IntAct(4)
    /\ _step_count = 2
    /\ \E x \in 0 .. (grid_width - 1) : grid[1][x] = Cell(DOOR, OPEN)

C10_GridConfigValidation ==
    (cls = "DoorCorridorEnv" /\ phase \in {"failed", "constructed"})
    => /\ (args.corridor_length < 1 \/ args.max_steps <= 0)
          => phase = "failed"
       /\ phase = "constructed" => (corridor_length >= 1 /\ max_steps > 0)

\* C11: constructing the door corridor with an agent_view_size that is even
\* or smaller than 3 fails with an assertion error; with an odd view size of
\* at least 3 no assertion fails, and the kernel is constructed with that view
\* size whenever a grid of corridor_length + 2 columns can be generated.
C11_ViewSizeValidation ==
    (cls = "DoorCorridorEnv" /\ phase \in {"failed", "constructed"})
    => LET v == args.agent_view_size
           bad == v % 2 = 0 \/ v < 3
       IN  /\ bad => (phase = "failed" /\ ret.error = "AssertionError")
           /\ (~bad /\ phase = "failed") => ret.error # "AssertionError"
           /\ (~bad /\ args.corridor_length >= 0)
                => (phase = "constructed" /\ agent_view_size = v)

\* a view size of 1 is odd, and refused for being smaller than 3
C11_Witness ==
    /\ cls = "DoorCorridorEnv"
    /\ phase = "failed"
    /\ args.agent_view_size = 1
    /\ args.corridor_length >= 1
    /\ ret.msg = "agent_view_size >= 3"

\* C12: every constructed corridor kernel has a truncation limit > 0; the
\* small corridor given an explicit truncate_tolerance t <= 0 is refused at
\* construction, and given t > 0 has exactly t as its limit.
C12_PositiveTruncationLimit ==
    /\ (cls \in CorridorClasses /\ phase = "constructed")
         => truncate_tolerance > 0
    /\ (cls = "SmallCorridorEnv" /\ phase \in {"failed", "constructed"})
         => \A t \in args.truncate_tolerance :
               /\ t <= 0 => phase = "failed"
               /\ t > 0 => (phase = "constructed" /\ truncate_tolerance = t)

\* C13: in a corridor whose start is unset, any two resets given the same
\* seed yield the same initial position, whatever was drawn in between.
C13_SeededStart ==
    (cls \in CorridorClasses /\ phase = "constructed" /\ start_state = None)
    => \A i, j \in DOMAIN draws :
          (draws[i].seed # None /\ draws[i].seed = draws[j].seed)
          => draws[i].start = draws[j].start

\* C14: a reset of a corridor, whatever steps came before it, leaves the
\* agent at the configured start when one is configured and at some index in
\* [0, length) otherwise, records that position as the start of the episode,
\* sets the step counter to 0, and returns the observation of that position
\* with an info holding the position, the goal and the distance to the goal.
C14_CorridorReset ==
    [][(cls \in CorridorClasses /\ ret'.call = "reset")
       => LET p == _agent_location'
              diff == Abs(p - goal_state)
          IN  /\ ~ret'.raised
              /\ start_state # None => p = Val(start_state)
              /\ p \in 0 .. (corridor_length - 1)
              /\ _curr_start_state' = p
              /\ _internal_step_counter' = 0
              /\ ret'.observation.agent_location = p
              /\ ret'.observation.wall_status =
                    IF cls = "CircularSSCorridorEnv" THEN <<0, 0>>
                    ELSE IF p = 0 THEN <<1, 0>>
                    ELSE IF p = corridor_length - 1 THEN <<0, 1>>
                    ELSE <<0, 0>>
              /\ DOMAIN ret'.info =
                    {"agent_location", "goal", "distance_to_goal"}
              /\ ret'.info.agent_location = p
              /\ ret'.info.goal = goal_state
              /\ ret'.info.distance_to_goal =
                    IF cls = "CircularSSCorridorEnv"
                    THEN Min(diff, corridor_length - diff)
                    ELSE diff]_vars

\* a reset has put the agent back on a configured start in the middle of the
\* corridor
C14_Witness ==
    /\ cls = "LongCorridorEnv"
    /\ ret.call = "reset"
    /\ start_state = Some(1)
    /\ corridor_length = 3
    /\ _agent_location = 1 /\ _curr_start_state = 1
    /\ _internal_step_counter = 0
    /\ ret.info.distance_to_goal = 1

\* C15: in every state of a corridor that has been reset, the text rendering
\* is "[", then the length cells of one character each separated by "|", then
\* "]"; the cell of the agent's position is "*", whether or not that cell is
\* the recorded start, the goal or a special position, and no other cell is.
C15_RenderAgent ==
    (cls \in CorridorClasses /\ _agent_location # Unset)
    => LET r == _render_frame_ansi_mode
           n == corridor_length
       IN  /\ Len(r) = 2 * n + 1
           /\ r[1] = "["
           /\ r[2 * n + 1] = "]"
           /\ \A k \in 1 .. (n - 1) : r[2 * k + 1] = "|"
           /\ \A k \in 1 .. n : r[2 * k] \in {" ", "S", "G", "^", "*"}
           /\ \A k \in 1 .. n : (r[2 * k] = "*") = (k - 1 = _agent_location)

\* the agent stands on a special position that is also the recorded start
C15_Witness ==
    /\ cls \in CorridorClasses
    /\ ret.call = "step" /\ ~ret.raised
    /\ _agent_location = _curr_start_state
    /\ _agent_location \in special_states
    /\ _render_frame_ansi_mode[2 * _agent_location + 2] = "*"

\* C16 as stated: a cell without the agent is "S" when it is the recorded
\* start, "G" when it is the goal, "^" only when it is a special position
\* that is neither, and " " otherwise.
C16_Original ==
    (cls \in CorridorClasses /\ _agent_location # Unset)
    => \A i \in 0 .. (corridor_length - 1) :
          i # _agent_location
          => _render_frame_ansi_mode[2 * i + 2] =
                IF i = _curr_start_state THEN "S"
                ELSE IF i = goal_state THEN "G"
                ELSE IF i \in special_states THEN "^"
                ELSE " "

\* C16: a cell without the agent is "^" when it is a special position, else
\* "G" when it is the goal, else "S" when it is the recorded start, and " "
\* otherwise.
C16_RenderMarkers ==
    (cls \in CorridorClasses /\ _agent_location # Unset)
    => \A i \in 0 .. (corridor_length - 1) :
          i # _agent_location
          => _render_frame_ansi_mode[2 * i + 2] =
                IF i \in special_states THEN "^"
                ELSE IF i = goal_state THEN "G"
                ELSE IF i = _curr_start_state THEN "S"
                ELSE " "

\* the agent has left a recorded start that is a special position, and the
\* goal is a special position too: both cells show "^"
C16_Witness ==
    /\ cls \in CorridorClasses
    /\ ret.call = "step" /\ ~ret.raised
    /\ _curr_start_state \in special_states
    /\ goal_state \in special_states
    /\ _agent_location \notin {_curr_start_state, goal_state}
    /\ _render_frame_ansi_mode[2 * _curr_start_state + 2] = "^"
    /\ _render_frame_ansi_mode[2 * goal_state + 2] = "^"

\* C17 as stated: after construction and after reset of a door corridor of
\* length >= 1 the grid is corridor_length + 2 wide and 3 high, every border
\* cell is a wall, (1,1) is marked Agent, (width-2,1) is marked Goal, every
\* interior column strictly between them holds a closed door, and every cell
\* that is not a door has door state Open.
C17_Original ==
    (cls = "DoorCorridorEnv" /\ phase = "constructed"
     /\ ret.call \in {"__init__", "reset"} /\ corridor_length >= 1)
    => /\ grid_width = corridor_length + 2
       /\ grid_height = 3
       /\ DOMAIN grid = 0 .. 2
       /\ \A y \in 0 .. 2 : DOMAIN grid[y] = 0 .. (grid_width - 1)
       /\ \A y \in 0 .. 2 : \A x \in 0 .. (grid_width - 1) :
             LET c == grid[y][x]
             IN  /\ (y \in {0, 2} \/ x \in {0, grid_width - 1})
                      => c[0] = WALL
                 /\ (y = 1 /\ x = 1) => c[0] = AGENT
                 /\ (y = 1 /\ x = grid_width - 2) => c[0] = GOAL
                 /\ (y = 1 /\ 1 < x /\ x < grid_width - 2)
                      => c = Cell(DOOR, CLOSED)
                 /\ c[0] # DOOR => c[1] = OPEN

\* C17: after construction and after reset of a door corridor of length >= 1
\* the grid is corridor_length + 2 wide and 3 high, every border cell is a
\* wall, (width-2,1) is marked Goal, (1,1) is marked Agent unless it is the
\* goal cell (corridor_length = 1), every interior column strictly between
\* them holds a closed door, and every cell that is not a door has door state
\* Open.
C17_GridLayout ==
    (cls = "DoorCorridorEnv" /\ phase = "constructed"
     /\ ret.call \in {"__init__", "reset"} /\ corridor_length >= 1)
    => /\ grid_width = corridor_length + 2
       /\ grid_height = 3
       /\ DOMAIN grid = 0 .. 2
       /\ \A y \in 0 .. 2 : DOMAIN grid[y] = 0 .. (grid_width - 1)
       /\ \A y \in 0 .. 2 : \A x \in 0 .. (grid_width - 1) :
             LET c == grid[y][x]
             IN  /\ (y \in {0, 2} \/ x \in {0, grid_width - 1})
                      => c[0] = WALL
                 /\ (y = 1 /\ x = 1 /\ corridor_length >= 2) => c[0] = AGENT
                 /\ (y = 1 /\ x = grid_width - 2) => c[0] = GOAL
                 /\ (y = 1 /\ 1 < x /\ x < grid_width - 2)
                      => c = Cell(DOOR, CLOSED)
                 /\ c[0] # DOOR => c[1] = OPEN

\* a reset has regenerated the grid of a corridor with two doors
C17_Witness ==
    /\ cls = "DoorCorridorEnv"
    /\ ret.call = "reset"
    /\ corridor_length = 4
    /\ grid[1][1] = Cell(AGENT, OPEN)
    /\ grid[1][2] = Cell(DOOR, CLOSED)
    /\ grid[1][3] = Cell(DOOR, CLOSED)
    /\ grid[1][4] = Cell(GOAL, OPEN)

\* C18: a reset of the door corridor, whatever steps came before it, leaves
\* no door open, the grid as construction left it, the agent on the start
\* cell (1,1) facing up and the step counter at 0, and returns the
\* observation that a kernel freshly constructed from the same arguments
\* gives.
C18_GridReset ==
    [][(cls = "DoorCorridorEnv" /\ ret'.call = "reset")
       => LET fresh == DoorInit(args).value
          IN  /\ ~ret'.raised
              /\ grid' = fresh.grid
              /\ \A y \in 0 .. (grid_height - 1) :
                    \A x \in 0 .. (grid_width - 1) :
                        grid'[y][x][0] = DOOR => grid'[y][x][1] = CLOSED
              /\ agent_pos' = <<1, 1>>
              /\ agent_pos' = fresh.agent_pos
              /\ agent_dir' = UP
              /\ _step_count' = 0
              /\ ret'.observation.direction = UP
              /\ ret'.observation.image =
                    _get_agent_pov(fresh.grid, fresh.agent_pos,
                                   fresh.agent_dir)]_vars

\* after a reset the agent is on the start cell, facing up, before a closed
\* door and with no step counted
C18_Witness ==
    /\ cls = "DoorCorridorEnv"
    /\ ret.call = "reset"
    /\ corridor_length >= 3
    /\ agent_pos = <<1, 1>> /\ agent_dir = UP /\ _step_count = 0
    /\ grid[1][2] = Cell(DOOR, CLOSED)

\* C19: a step of the door corridor with the action Forward (2) returns
\* without error; it moves the agent to the cell immediately ahead along its
\* direction exactly when that cell is inside the grid, its door state is
\* Open and its object is not Wall, and leaves the position as it was
\* otherwise.
C19_MoveForward ==
    [][(cls = "DoorCorridorEnv" /\ ret'.call = "step"
        /\ ret'.action = IntAct(2))
       => LET fx == agent_pos[1] + (CASE agent_dir = 0 -> 1
                                      [] agent_dir = 2 -> -1
                                      [] OTHER -> 0)
              fy == agent_pos[2] + (CASE agent_dir = 1 -> 1
                                      [] agent_dir = 3 -> -1
                                      [] OTHER -> 0)
              inside == /\ 0 <= fx /\ fx < grid_width
                        /\ 0 <= fy /\ fy < grid_height
              free == inside /\ grid[fy][fx][1] = OPEN
                             /\ grid[fy][fx][0] # WALL
          IN  /\ ~ret'.raised
              /\ _step_count' = _step_count + 1
              /\ agent_pos' = IF free THEN <<fx, fy>> ELSE agent_pos
              /\ (agent_pos' # agent_pos) = free]_vars

\* the agent has walked forward onto the cell of a door it had opened
C19_Witness ==
    /\ cls = "DoorCorridorEnv"
    /\ ret.call = "step" /\ ~ret.raised
    /\ ret.action = IntAct(2)
    /\ corridor_length >= 2
    /\ agent_pos = <<2, 1>>
    /\ grid[1][2] = Cell(DOOR, OPEN)

\* C20: a step of the door corridor with the action Toggle (3) flips the door
\* state of the cell immediately ahead when that cell is inside the grid and
\* holds a door, and changes no cell otherwise; it leaves every other cell,
\* the position and the direction as they were, so that a second Toggle gives
\* back the grid the first one found.
C20_Toggle ==
    [][(cls = "DoorCorridorEnv" /\ ret'.call = "step"
        /\ ret'.action = IntAct(3))
       => LET fx == agent_pos[1] + (CASE agent_dir = 0 -> 1
                                      [] agent_dir = 2 -> -1
                                      [] OTHER -> 0)
              fy == agent_pos[2] + (CASE agent_dir = 1 -> 1
                                      [] agent_dir = 3 -> -1
                                      [] OTHER -> 0)
              door(g) == /\ 0 <= fx /\ fx < grid_width
                         /\ 0 <= fy /\ fy < grid_height
                         /\ g[fy][fx][0] = DOOR
              flip(g) == IF door(g)
                         THEN [g EXCEPT ![fy][fx][1] =
                                  IF @ = CLOSED THEN OPEN ELSE CLOSED]
                         ELSE g
          IN  /\ ~ret'.raised
              /\ grid' = flip(grid)
              /\ (grid' # grid) = door(grid)
              /\ flip(grid') = grid
              /\ agent_pos' = agent_pos
              /\ agent_dir' = agent_dir]_vars

\* a door opened by one Toggle has been closed again by the next
C20_Witness ==
    /\ cls = "DoorCorridorEnv"
    /\ ret.call = "step" /\ ~ret.raised
    /\ ret.action = IntAct(3)
    /\ corridor_length >= 2
    /\ _step_count = 3
    /\ agent_pos = <<1, 1>> /\ agent_dir = RIGHT
    /\ grid[1][2] = Cell(DOOR, CLOSED)

\* C21: a step of the door corridor with TurnRight (1) takes the direction
\* Right to Down, Down to Left, Left to Up and Up to Right, and with TurnLeft
\* (0) the other way round; neither moves the agent, and the direction in the
\* observation returned is the direction after the turn.  A left turn undoes a
\* right turn and conversely, and four equal turns give back the direction.
C21_Turning ==
    [][(cls = "DoorCorridorEnv" /\ ret'.call = "step"
        /\ ret'.action \in {IntAct(0), IntAct(1)})
       => LET clockwise(d) == CASE d = RIGHT -> DOWN
                                [] d = DOWN -> LEFT
                                [] d = LEFT -> UP
                                [] d = UP -> RIGHT
              counter(d) == CASE d = RIGHT -> UP
                              [] d = UP -> LEFT
                              [] d = LEFT -> DOWN
                              [] d = DOWN -> RIGHT
          IN  /\ ~ret'.raised
              /\ agent_dir' = IF ret'.action = IntAct(1)
                              THEN clockwise(agent_dir)
                              ELSE counter(agent_dir)
              /\ agent_pos' = agent_pos
              /\ grid' = grid
              /\ ret'.observation.direction = agent_dir'
              /\ \A d \in AgentDirection :
                    /\ turn_right(turn_left(d)) = d
                    /\ turn_left(turn_right(d)) = d
                    /\ turn_left(turn_left(turn_left(turn_left(d)))) = d
                    /\ turn_right(turn_right(turn_right(turn_right(d)))) = d]_vars

\* a left turn made facing right: the direction wraps round from 0 to 3
C21_Witness ==
    /\ cls = "DoorCorridorEnv"
    /\ ret.call = "step" /\ ~ret.raised
    /\ ret.action = IntAct(0)
    /\ _step_count = 2
    /\ agent_dir = UP
    /\ ret.observation.direction = UP
    /\ ret.info.agent_direction = "UP"

\* C22: in the image of every observation of the door corridor, of view size
\* v and half = v div 2, the cell at row r and column c that no closed door
\* hides is the grid cell (v-1-r) cells ahead of the agent along its direction
\* and (c - half) cells to its right, or Unseen when that cell is outside the
\* grid; the bottom-centre cell (row v-1, column half) is the agent's own cell.
C22_EgocentricView ==
    (cls = "DoorCorridorEnv" /\ ret.call \in {"reset", "step"} /\ ~ret.raised)
    => LET v == agent_view_size
           half == v \div 2
           img == ret.observation.image
           fx == CASE agent_dir = 0 -> 1 [] agent_dir = 2 -> -1 [] OTHER -> 0
           fy == CASE agent_dir = 1 -> 1 [] agent_dir = 3 -> -1 [] OTHER -> 0
           rx == -fy
           ry == fx
           ego(r, c) ==
               LET x == agent_pos[1] + (v - 1 - r) * fx + (c - half) * rx
                   y == agent_pos[2] + (v - 1 - r) * fy + (c - half) * ry
               IN  IF 0 <= x /\ x < grid_width /\ 0 <= y /\ y < grid_height
                   THEN grid[y][x]
                   ELSE Cell(UNSEEN, OPEN)
           hidden(r) == \E q \in 1 .. (v - 2) :
                           q > r /\ ego(q, half) = Cell(DOOR, CLOSED)
       IN  /\ DOMAIN img = 0 .. (v - 1)
           /\ \A r \in 0 .. (v - 1) : DOMAIN img[r] = 0 .. (v - 1)
           /\ \A r \in 0 .. (v - 1) : \A c \in 0 .. (v - 1) :
                 ~hidden(r) => img[r][c] = ego(r, c)
           /\ img[v - 1][half] = grid[agent_pos[2]][agent_pos[1]]
           /\ ret.observation.direction = agent_dir

\* the agent stands on an opened door's cell facing down, with a view of 5:
\* the wall is one cell ahead, the outside beyond it, and the marked start
\* cell is immediately to the agent's right
C22_Witness ==
    /\ cls = "DoorCorridorEnv"
    /\ ret.call = "step" /\ ~ret.raised
    /\ agent_view_size = 5
    /\ corridor_length >= 3
    /\ agent_pos = <<2, 1>>
    /\ agent_dir = DOWN
    /\ ret.observation.image[4][2] = Cell(DOOR, OPEN)
    /\ ret.observation.image[3][2] = Cell(WALL, OPEN)
    /\ ret.observation.image[2][2] = Cell(UNSEEN, OPEN)
    /\ ret.observation.image[4][3] = Cell(AGENT, OPEN)
    /\ ret.observation.image[4][1] = Cell(DOOR, CLOSED)

\* C23: when the centre column of the view holds a closed door at forward
\* distance k, 1 <= k <= v-2, and k is the smallest such distance, every cell
\* of every row at forward distance greater than k is Unseen with state Open
\* in the image returned, while the rows at distance <= k hold the cells of
\* the grid; with no closed door in the centre column at those distances
\* (an open door, a wall, a closed door in another column) no cell is hidden.
C23_Occlusion ==
    (cls = "DoorCorridorEnv" /\ ret.call \in {"reset", "step"} /\ ~ret.raised)
    => LET v == agent_view_size
           half == v \div 2
           img == ret.observation.image
           fx == CASE agent_dir = 0 -> 1 [] agent_dir = 2 -> -1 [] OTHER -> 0
           fy == CASE agent_dir = 1 -> 1 [] agent_dir = 3 -> -1 [] OTHER -> 0
           at(k, s) ==
               LET x == agent_pos[1] + k * fx - s * fy
                   y == agent_pos[2] + k * fy + s * fx
               IN  IF 0 <= x /\ x < grid_width /\ 0 <= y /\ y < grid_height
                   THEN grid[y][x]
                   ELSE Cell(UNSEEN, OPEN)
           doors == {k \in 1 .. (v - 2) : at(k, 0) = Cell(DOOR, CLOSED)}
       IN  \A k \in 0 .. (v - 1) : \A s \in (-half) .. half :
              img[v - 1 - k][half + s] =
                 IF \E d \in doors : d < k
                 THEN Cell(UNSEEN, OPEN)
                 ELSE at(k, s)

\* with a view of 5 the agent faces two closed doors in a row: the nearer one
\* is shown and everything beyond it, the second door included, is hidden
C23_Witness ==
    /\ cls = "DoorCorridorEnv"
    /\ ret.call = "step" /\ ~ret.raised
    /\ agent_view_size = 5
    /\ corridor_length >= 4
    /\ agent_pos = <<1, 1>>
    /\ agent_dir = RIGHT
    /\ grid[1][2] = Cell(DOOR, CLOSED)
    /\ grid[1][3] = Cell(DOOR, CLOSED)
    /\ ret.observation.image[3][2] = Cell(DOOR, CLOSED)
    /\ \A r \in 0 .. 2 : \A c \in 0 .. 4 :
          ret.observation.image[r][c] = Cell(UNSEEN, OPEN)

\* C24: in the door corridor of the default length 5, while the agent faces a
\* closed door in the cell immediately ahead, every cell of its view beyond
\* the door is Unseen; the observation returned by a Toggle step made there
\* shows the door open and, in the row directly beyond it, the cells of the
\* grid (or Unseen where the row leaves the grid).
C24_ToggleLiftsOcclusion ==
    [][LET v == agent_view_size
           half == v \div 2
           fx == CASE agent_dir = 0 -> 1 [] agent_dir = 2 -> -1 [] OTHER -> 0
           fy == CASE agent_dir = 1 -> 1 [] agent_dir = 3 -> -1 [] OTHER -> 0
           at(g, k, s) ==
               LET x == agent_pos[1] + k * fx - s * fy
                   y == agent_pos[2] + k * fy + s * fx
               IN  IF 0 <= x /\ x < grid_width /\ 0 <= y /\ y < grid_height
                   THEN g[y][x]
                   ELSE Cell(UNSEEN, OPEN)
       IN  (/\ cls = "DoorCorridorEnv"
            /\ corridor_length = DEFAULT_CORRIDOR_LENGTH
            /\ ret.call \in {"reset", "step"} /\ ~ret.raised
            /\ at(grid, 1, 0) = Cell(DOOR, CLOSED)
            /\ ret'.call = "step" /\ ret'.action = IntAct(3))
           => /\ \A k \in 2 .. (v - 1) : \A c \in 0 .. (v - 1) :
                    ret.observation.image[v - 1 - k][c] = Cell(UNSEEN, OPEN)
              /\ ~ret'.raised
              /\ ret'.observation.image[v - 2][half] = Cell(DOOR, OPEN)
              /\ \A s \in (-half) .. half :
                    ret'.observation.image[v - 3][half + s] = at(grid', 2, s)
              /\ ret'.observation.image[v - 3][half] # Cell(UNSEEN, OPEN)]_vars

\* from the start of the default layout the agent has turned to the first
\* door and opened it: the second door, closed, shows beyond it between walls
C24_Witness ==
    /\ cls = "DoorCorridorEnv"
    /\ corridor_length = DEFAULT_CORRIDOR_LENGTH
    /\ agent_view_size = DEFAULT_AGENT_VIEW_SIZE
    /\ ret.call = "step" /\ ~ret.raised
    /\ ret.action = IntAct(3)
    /\ agent_pos = <<1, 1>> /\ agent_dir = RIGHT
    /\ grid[1][2] = Cell(DOOR, OPEN)
    /\ ret.observation.image[1][1] = Cell(DOOR, OPEN)
    /\ ret.observation.image[0] =
          [c \in 0 .. 2 |-> IF c = 1 THEN Cell(DOOR, CLOSED)
                            ELSE Cell(WALL, OPEN)]

\* C25: every step of the door corridor that returns - a turn, a Forward that
\* is blocked and a Toggle that finds no door included - adds exactly one to
\* the step counter and returns the reward -1, terminated = (the position
\* after the action is the goal cell) and truncated = (the counter after the
\* increment >= max_steps).
C25_GridStepFlags ==
    [][(cls = "DoorCorridorEnv" /\ ret'.call = "step" /\ ~ret'.raised)
       => /\ ret'.action \in {IntAct(0), IntAct(1), IntAct(2), IntAct(3)}
          /\ _step_count' = _step_count + 1
          /\ ret'.reward = -1
          /\ ret'.terminated = (agent_pos' = goal_pos)
          /\ ret'.terminated = (agent_pos' = <<corridor_length, 1>>)
          /\ ret'.truncated = (_step_count' >= max_steps)]_vars

\* a turn made on the last step allowed, the agent away from the goal: the
\* step is counted and truncates without terminating
C25_Witness ==
    /\ cls = "DoorCorridorEnv"
    /\ ret.call = "step" /\ ~ret.raised
    /\ ret.action = IntAct(0)
    /\ corridor_length = 2
    /\ max_steps = 2 /\ _step_count = 2
    /\ agent_pos = <<1, 1>>
    /\ ret.truncated /\ ~ret.terminated /\ ret.reward = -1

\* C26: the info returned by every step that returns, of the corridor and of
\* the door corridor, holds the normalized action, the observation, the
\* reward and the terminated and truncated flags, each equal to the value the
\* same step returns, and for the corridor the distance to the goal as well.
C26_StepInfo ==
    (ret.call = "step" /\ ~ret.raised)
    => /\ {"action", "observation", "reward", "terminated", "truncated"}
             \subseteq DOMAIN ret.info
       /\ ret.info.observation = ret.observation
       /\ ret.info.reward = ret.reward
       /\ ret.info.terminated = ret.terminated
       /\ ret.info.truncated = ret.truncated
       /\ IF cls \in CorridorClasses
          THEN /\ ret.info.action \in {"L", "R"}
               /\ "distance_to_goal" \in DOMAIN ret.info
          ELSE ret.info.action \in {"LEFT", "RIGHT", "FORWARD", "TOGGLE"}

\* C27: in every state of a door corridor of length >= 2, the cell of the
\* grid whose object is Agent is the cell of the agent's position, and every
\* other cell holds the object it held when the grid was generated.
C27_AgentMarker ==
    (cls = "DoorCorridorEnv" /\ phase = "constructed" /\ corridor_length >= 2)
    => LET fresh == _gen_grid(grid_width, grid_height).value
       IN  \A y \in 0 .. (grid_height - 1) : \A x \in 0 .. (grid_width - 1) :
              /\ (grid[y][x][0] = AGENT) = (<<x, y>> = agent_pos)
              /\ (<<x, y>> # agent_pos /\ fresh[y][x][0] # AGENT)
                    => grid[y][x][0] = fresh[y][x][0]

C30_ActionNormalization ==
    [][(cls \in CorridorClasses /\ ret'.call = "step"
        /\ ret'.action \in {IntAct(0), IntAct(1), StrAct("L"), StrAct("R")})
       => LET given == ret'.action
              twin == CASE given = IntAct(0) -> StrAct("L")
                        [] given = IntAct(1) -> StrAct("R")
                        [] given = StrAct("L") -> IntAct(0)
                        [] given = StrAct("R") -> IntAct(1)
              token == IF given \in {IntAct(0), StrAct("L")} THEN "L" ELSE "R"
              r == CorridorStepResult(twin)
          IN  IF ret'.raised THEN r.raised
              ELSE /\ r = Return(_agent_location')
                   /\ ret'.info.action = token
                   /\ [CorridorStepReturn(twin, _agent_location',
                                          _internal_step_counter')
                         EXCEPT !.action = given] = ret']_vars

\* a step given the string "L" in a special state has moved the agent to the
\* right and reports the token "L"
C30_Witness ==
    /\ cls \in CorridorClasses
    /\ ret.call = "step" /\ ~ret.raised
    /\ ret.action = StrAct("L")
    /\ ret.info.action = "L"
    /\ _curr_start_state \in special_states
    /\ _internal_step_counter = 1
    /\ _agent_location = _curr_start_state + 1

\* C31: in every constructed corridor, linear or circular, after a reset and
\* after any sequence of valid and invalid step calls, the agent's location
\* and the start of the episode are integers in [0, corridor_length).
C31_PositionInRange ==
    (cls \in CorridorClasses /\ phase = "constructed"
     /\ _agent_location # Unset)
    => /\ _agent_location \in 0 .. (corridor_length - 1)
       /\ _curr_start_state \in 0 .. (corridor_length - 1)

\* a corridor of two cells started on its last cell has been stepped twice
\* and stands on cell 0
C31_Witness ==
    /\ cls \in {"LongCorridorEnv", "CircularSSCorridorEnv"}
    /\ ret.call = "step"
    /\ ~ret.raised
    /\ calls >= 2
    /\ _agent_location = 0
    /\ _curr_start_state = corridor_length - 1
    /\ corridor_length = 2

\* C32: in a door corridor of length >= 1, after any sequence of steps and
\* resets, every border cell is a wall, the door cells are exactly the cells
\* of the interior row in the columns strictly between the start column and
\* the goal column, and every cell that is not a door has door state Open.
C32_GridStructure ==
    (cls = "DoorCorridorEnv" /\ phase = "constructed" /\ corridor_length >= 1)
    => /\ \A y \in 0 .. (grid_height - 1) : \A x \in 0 .. (grid_width - 1) :
             LET c == grid[y][x]
             IN  /\ (y \in {0, grid_height - 1} \/ x \in {0, grid_width - 1})
                      => c[0] = WALL
                 /\ c[0] # DOOR => c[1] = OPEN
       /\ {<<x, y>> \in (0 .. (grid_width - 1)) \X (0 .. (grid_height - 1)) :
              grid[y][x][0] = DOOR}
          = {<<x, 1>> : x \in (start_pos[1] + 1) .. (goal_pos[1] - 1)}

\* after the first door was opened, a Toggle against the wall above the
\* start cell has left that wall Open and the grid with one open door
C32_Witness ==
    /\ cls = "DoorCorridorEnv"
    /\ corridor_length >= 4
    /\ ret.call = "step"
    /\ ~ret.raised
    /\ ret.action = IntAct(TOGGLE)
    /\ agent_pos = <<1, 1>>
    /\ agent_dir = UP
    /\ grid[0][1] = Cell(WALL, OPEN)
    /\ grid[1][2] = Cell(DOOR, OPEN)
    /\ grid[1][3] = Cell(DOOR, CLOSED)

\* C33: in a door corridor of length >= 1, after any sequence of steps, the
\* agent stands on the interior row (y = 1, 1 <= x <= grid_width - 2), on a
\* cell that is not a wall and whose door state is not Closed.
C33_AgentCell ==
    (cls = "DoorCorridorEnv" /\ phase = "constructed" /\ corridor_length >= 1)
    => /\ agent_pos[2] = 1
       /\ 1 <= agent_pos[1]
       /\ agent_pos[1] <= grid_width - 2
       /\ _with_grid(agent_pos[1], agent_pos[2])
       /\ grid[agent_pos[2]][agent_pos[1]][0] # WALL
       /\ grid[agent_pos[2]][agent_pos[1]][1] # CLOSED

\* the agent stands on the first door, which it opened, and has just toggled
\* the door ahead of it
C33_Witness ==
    /\ cls = "DoorCorridorEnv"
    /\ corridor_length >= 4
    /\ ret.call = "step"
    /\ ~ret.raised
    /\ ret.action = IntAct(TOGGLE)
    /\ agent_pos = <<2, 1>>
    /\ agent_dir = RIGHT
    /\ grid[1][2] = Cell(DOOR, OPEN)
    /\ grid[1][3] = Cell(DOOR, OPEN)

\* C34: of the position, the direction, the grid and the step counter, a turn
\* of the door corridor changes only the direction and the counter; a
\* MoveForward only the position and the counter; a Toggle only the counter
\* and at most the door state of the one cell directly ahead.  No step
\* changes the object of any cell, nor the configuration.
C34_GridFrame ==
    [][(cls = "DoorCorridorEnv" /\ ret'.call = "step" /\ ~ret'.raised)
       => LET a == ret'.action.i
              front == _in_front_of_agent_coord(agent_pos, agent_dir)
              ys == 0 .. (grid_height - 1)
              xs == 0 .. (grid_width - 1)
          IN  /\ _step_count' = _step_count + 1
              /\ UNCHANGED <<corridor_length, max_steps, agent_view_size,
                             grid_width, grid_height, start_pos, goal_pos>>
              /\ DOMAIN grid' = ys
              /\ \A y \in ys :
                    /\ DOMAIN grid'[y] = xs
                    /\ \A x \in xs : grid'[y][x][0] = grid[y][x][0]
              /\ a \in {LEFT_ACTION, RIGHT_ACTION}
                   => (agent_pos' = agent_pos /\ grid' = grid)
              /\ a = FORWARD => (agent_dir' = agent_dir /\ grid' = grid)
              /\ a = TOGGLE
                   => /\ agent_pos' = agent_pos
                      /\ agent_dir' = agent_dir
                      /\ \A y \in ys : \A x \in xs :
                            <<x, y>> # front => grid'[y][x] = grid[y][x]]_vars

\* a MoveForward has taken the agent onto the door it opened: three steps
\* counted, the direction kept, the open door open and the next door closed
C34_Witness ==
    /\ cls = "DoorCorridorEnv"
    /\ corridor_length >= 4
    /\ ret.call = "step"
    /\ ~ret.raised
    /\ ret.action = IntAct(FORWARD)
    /\ _step_count = 3
    /\ agent_pos = <<2, 1>>
    /\ agent_dir = RIGHT
    /\ grid[1][1][0] = AGENT
    /\ grid[1][2] = Cell(DOOR, OPEN)
    /\ grid[1][3] = Cell(DOOR, CLOSED)

\* C35 as stated: immediately after a reset of a corridor the agent is not at
\* the goal and the distance reported is at least 1, whether the start state
\* is concrete or unset.
C35_Original ==
    (cls \in CorridorClasses /\ phase = "constructed" /\ ret.call = "reset")
    => /\ _agent_location # goal_state
       /\ ret.info.distance_to_goal >= 1

\* C35: immediately after a reset of a corridor whose start state is
\* concrete the agent is not at the goal and the distance reported is at
\* least 1; after any reset the agent is on an index of the corridor and the
\* distance reported is 0 exactly when that index is the goal.
C35_ResetAwayFromGoal ==
    (cls \in CorridorClasses /\ phase = "constructed" /\ ret.call = "reset")
    => /\ start_state # None
            => /\ _agent_location # goal_state
               /\ ret.info.distance_to_goal >= 1
       /\ _agent_location \in 0 .. (corridor_length - 1)
       /\ ret.info.distance_to_goal >= 0
       /\ (ret.info.distance_to_goal = 0) = (_agent_location = goal_state)

\* a reset of a corridor of three cells with the start fixed at 0 and the
\* goal at 2
C35_Witness ==
    /\ cls = "LongCorridorEnv"
    /\ ret.call = "reset"
    /\ corridor_length = 3
    /\ start_state = Some(0)
    /\ goal_state = 2
    /\ _agent_location = 0
    /\ ret.info.distance_to_goal = 2

\* C36: in the corridors and in the door corridor, once a step of an episode
\* has returned truncated = true every later step of the episode that returns
\* has truncated = true, and the first step of an episode returns
\* truncated = false whenever the truncation limit is greater than 1.
C36_TruncationMonotone ==
    phase = "constructed"
    => LET limit == IF cls = "DoorCorridorEnv" THEN max_steps
                    ELSE truncate_tolerance
       IN  /\ \A i \in 1 .. Len(hist) : \A j \in 1 .. Len(hist) :
                 (i < j /\ hist[i].truncated) => hist[j].truncated
           /\ (Len(hist) >= 1 /\ limit > 1) => ~hist[1].truncated

\* a corridor with limit 2 stepped three times in one episode: the first
\* step not truncated, the second and the third truncated
C36_Witness ==
    /\ cls \in CorridorClasses
    /\ truncate_tolerance = 2
    /\ Len(hist) = 3
    /\ ~hist[1].truncated
    /\ hist[2].truncated
    /\ hist[3].truncated
    /\ _internal_step_counter = 3

\* C37: a step called after a step of the same episode has returned
\* terminated = true or truncated = true is not blocked: it raises on the
\* actions a step always rejects and otherwise adds one to the step counter,
\* moves the agent (and in the door corridor turns it or toggles the door
\* ahead) by the rule of any other step, and returns terminated = (the
\* position after the step is the goal).
C37_StepsAfterEnd ==
    [][(/\ phase = "constructed"
        /\ Len(hist) >= 1
        /\ hist[Len(hist)].terminated \/ hist[Len(hist)].truncated
        /\ ret'.call = "step")
       => IF cls \in CorridorClasses
          THEN LET r == _get_agent_new_location(_agent_location, ret'.action)
               IN  IF r.raised
                   THEN /\ ret'.raised
                        /\ UNCHANGED <<_agent_location,
                                       _internal_step_counter, hist>>
                   ELSE /\ ~ret'.raised
                        /\ _internal_step_counter' = _internal_step_counter + 1
                        /\ _agent_location' = r.value
                        /\ ret'.terminated = (_agent_location' = goal_state)
                        /\ Len(hist') = Len(hist) + 1
          ELSE LET front == _in_front_of_agent_coord(agent_pos, agent_dir)
                   x == front[1]
                   y == front[2]
               IN  IF ret'.action \notin {IntAct(a) : a \in DoorCorridorAction}
                   THEN /\ ret'.raised
                        /\ UNCHANGED <<agent_pos, agent_dir, grid,
                                       _step_count, hist>>
                   ELSE /\ ~ret'.raised
                        /\ _step_count' = _step_count + 1
                        /\ agent_dir' =
                             CASE ret'.action = IntAct(LEFT_ACTION) ->
                                    (agent_dir + 3) % 4
                               [] ret'.action = IntAct(RIGHT_ACTION) ->
                                    (agent_dir + 1) % 4
                               [] OTHER -> agent_dir
                        /\ agent_pos' =
                             IF /\ ret'.action = IntAct(FORWARD)
                                /\ _with_grid(x, y)
                                /\ grid[y][x][1] = OPEN
                                /\ grid[y][x][0] # WALL
                             THEN front
                             ELSE agent_pos
                        /\ grid' =
                             IF /\ ret'.action = IntAct(TOGGLE)
                                /\ _with_grid(x, y)
                                /\ grid[y][x][0] = DOOR
                             THEN [grid EXCEPT ![y][x][1] = 1 - @]
                             ELSE grid
                        /\ ret'.terminated = (agent_pos' = goal_pos)
                        /\ Len(hist') = Len(hist) + 1]_vars

\* a door corridor of two cells with limit 2: the second step reached the
\* goal and was truncated, and the fifth step, the agent turned round, has
\* taken it back to the start cell - terminated has gone from true to false
C37_Witness ==
    /\ cls = "DoorCorridorEnv"
    /\ corridor_length = 2
    /\ max_steps = 2
    /\ Len(hist) = 5
    /\ hist[2].terminated /\ hist[2].truncated
    /\ hist[4].terminated
    /\ ~hist[5].terminated /\ hist[5].truncated
    /\ agent_pos = <<1, 1>>
    /\ _step_count = 5

\* C38: in every constructed corridor, whatever its special states, from
\* every position p the actions L and R lead to the two neighbours of p in
\* the geometry - p-1 and p+1 kept within [0, length-1] in the linear
\* corridor, taken modulo the length in the circular one - in one order or
\* the other; so a step changes the distance to the goal by at most 1, and
\* the least number of steps that takes the agent from p to the goal is the
\* distance to the goal of p: the goal is reachable from every position.
C38_SpecialStatesRelabel ==
    (cls \in CorridorClasses /\ phase = "constructed")
    => LET n == corridor_length
           cells == 0 .. (n - 1)
           tokens == {StrAct("L"), StrAct("R"), IntAct(0), IntAct(1)}
           succ(p, a) == _get_agent_new_location(p, a).value
           neighbours(p) ==
               IF cls = "CircularSSCorridorEnv"
               THEN {(p + n - 1) % n, (p + 1) % n}
               ELSE {IF p = 0 THEN 0 ELSE p - 1,
                     IF p = n - 1 THEN n - 1 ELSE p + 1}
           dist(p) ==
               LET diff == IF p >= goal_state THEN p - goal_state
                           ELSE goal_state - p
               IN  IF cls = "CircularSSCorridorEnv" /\ n - diff < diff
                   THEN n - diff ELSE diff
           within(p) ==
               LET R[k \in 0 .. n] ==
                     IF k = 0 THEN {p}
                     ELSE R[k - 1] \cup
                          {succ(q, a) : q \in R[k - 1], a \in tokens}
               IN  R
       IN  \A p \in cells :
              /\ \A a \in tokens : ~_get_agent_new_location(p, a).raised
              /\ {succ(p, StrAct("L")), succ(p, StrAct("R"))} = neighbours(p)
              /\ {succ(p, IntAct(0)), succ(p, IntAct(1))} = neighbours(p)
              /\ \A a \in tokens :
                    /\ _get_distance_to_goal(succ(p, a)) - 1
                         <= _get_distance_to_goal(p)
                    /\ _get_distance_to_goal(p) - 1
                         <= _get_distance_to_goal(succ(p, a))
              /\ _get_distance_to_goal(p) = dist(p)
              /\ dist(p) <= n
              /\ goal_state \in within(p)[dist(p)]
              /\ dist(p) > 0 => goal_state \notin within(p)[dist(p) - 1]

\* a linear corridor whose cells 0 and 1 are special, started on 0 with the
\* goal on 2, has reached the goal in two steps, the second with action L
C38_Witness ==
    /\ cls = "LongCorridorEnv"
    /\ corridor_length = 3
    /\ special_states = {0, 1}
    /\ goal_state = 2
    /\ _curr_start_state = 0
    /\ ret.call = "step"
    /\ ~ret.raised
    /\ ret.info.action = "L"
    /\ _internal_step_counter = 2
    /\ _agent_location = 2
    /\ ret.terminated

\* C39: in a door corridor of length L >= 2 no step returns terminated = true
\* before the 2L - 2nd step since the reset (or the construction), and the
\* steps TurnRight, then Toggle and MoveForward for each of the L - 2 doors,
\* then MoveForward, taken from the reset state, end on the goal with
\* terminated = true exactly at step 2L - 2 and not before; in the default
\* corridor of 5 cells that is step 8, which the default limit of 270 does
\* not truncate.
C39_ShortestEpisode ==
    [][LET L == corridor_length
           last == 2 * L - 2
           nth(k) == CASE k = 1 -> RIGHT_ACTION
                       [] k = last -> FORWARD
                       [] k % 2 = 0 -> TOGGLE
                       [] OTHER -> FORWARD
           at(k) == IF k = last THEN L ELSE 1 + ((k - 1) \div 2)
           opened(k) == 2 .. Min(1 + (k \div 2), L - 1)
           onScript(pos, dir, g, count, k) ==
               /\ count = k
               /\ pos = <<IF k = 0 THEN 1 ELSE at(k), 1>>
               /\ dir = IF k = 0 THEN UP ELSE RIGHT
               /\ \A c \in 2 .. (L - 1) :
                     g[1][c] = Cell(DOOR, IF k > 0 /\ c \in opened(k)
                                          THEN OPEN ELSE CLOSED)
       IN  (cls = "DoorCorridorEnv" /\ phase = "constructed" /\ L >= 2)
           => /\ agent_pos' = goal_pos => _step_count' >= last
              /\ (ret'.call = "step" /\ ~ret'.raised /\ ret'.terminated)
                   => _step_count' >= last
              /\ ret'.call = "reset"
                   => onScript(agent_pos', agent_dir', grid', _step_count', 0)
              /\ L = DEFAULT_CORRIDOR_LENGTH => last = 8
              /\ (/\ _step_count < last
                  /\ onScript(agent_pos, agent_dir, grid, _step_count,
                              _step_count)
                  /\ ret'.call = "step"
                  /\ ret'.action = IntAct(nth(_step_count + 1)))
                 => /\ ~ret'.raised
                    /\ onScript(agent_pos', agent_dir', grid', _step_count',
                                _step_count + 1)
                    /\ ret'.terminated = (_step_count' = last)
                    /\ (_step_count' = last) = (agent_pos' = goal_pos)
                    /\ max_steps = DOOR_DEFAULT_TRUNCATE_TOLERANCE
                         => (max_steps = 270 /\ ~ret'.truncated)]_vars

\* the default corridor of 5 cells with the default limit, all three doors
\* open and the agent on the goal after the eighth step since the reset
C39_Witness ==
    /\ cls = "DoorCorridorEnv"
    /\ corridor_length = DEFAULT_CORRIDOR_LENGTH
    /\ max_steps = DOOR_DEFAULT_TRUNCATE_TOLERANCE
    /\ ret.call = "step"
    /\ ~ret.raised
    /\ ret.action = IntAct(FORWARD)
    /\ _step_count = 8
    /\ calls = 8
    /\ agent_pos = <<5, 1>>
    /\ agent_dir = RIGHT
    /\ \A c \in 2 .. 4 : grid[1][c] = Cell(DOOR, OPEN)
    /\ ret.terminated
    /\ ~ret.truncated

====
